---------------------------- MODULE Spec2Model ----------------------------
(***************************************************************************)
(* A model of the faded-parsons-problem generator (pl-faded-parsons):      *)
(*   - parse_fpp_regions, the region extractor of generate_fpp.py, with    *)
(*     parse_blanks and the finalization of the region buffers;            *)
(*   - the tokenizer's region bookkeeping (lib/tokens.py, described by the *)
(*     formatting rules of consts.py);                                     *)
(*   - the autograder registry of lib/autograde.py, in its two copies;     *)
(*   - PythonAutograder.populate_tests_dir, in its two copies.             *)
(* Text is a sequence of one-character strings.                            *)
(***************************************************************************)
EXTENDS Integers, Sequences, FiniteSets, TLC

VARIABLES
    \* ---- parse_fpp_regions (generate_fpp.py)
    metadata,         \* tokens.metadata: the front-matter directives
    data,             \* tokens.data, the tokens the loop has taken so far
    r_texts,          \* region name -> list of text fragments (a defaultdict)
    docstring_state,  \* DocstringState of the loop
    pc,               \* "loop" | "done" | "error"
    out,              \* the returned region map (texts), once pc = "done"
    err,              \* the exception raised, once pc = "error"
    \* ---- lex (lib/tokens.py): region bookkeeping
    lex_open,         \* the regions open at the cursor, innermost last
    lex_tokens,       \* the tokens produced so far
    lex_pc,           \* "scan" | "done" | "error"
    lex_item,         \* the source item the last step consumed
    \* ---- autograders registry (lib/autograde.py)
    impl,             \* which copy of lib/autograde.py is loaded: "fppgen" | "lib"
    autograders,      \* extension -> autograder class
    lookup,           \* the last lookup: extension, class returned, warnings
    fragment,         \* what the last info_json_update returned
    \* ---- Line of the element (pl-faded-parsons.py)
    line_call,        \* the last call that builds a Line, and its argument
    line_result,      \* what it returned, or the exception it raised
    \* ---- PythonAutograder.populate_tests_dir
    files,            \* tests directory: file name -> content
    call,             \* the arguments of the populate call that ran
    log,              \* what the call logged
    \* ---- populate_tests_dir of the three autograders, run into fresh roots
    run_pc,           \* "idle" | "solution" | "meta" | "common" | "loop" |
                      \* "patch" | "done" | "error"
    run_backend,      \* "python" | "ruby" | "rspec" ("" before a call)
    run_args,         \* the arguments of the call
    run_root,         \* the tests directory of the call: path -> content
    run_err,          \* the exception the call raised, once run_pc = "error"
    run_iter,         \* the loops of lines 232, 237: variant v, file f
    run_patches,      \* the patch processes started, in order
    run_inflight,     \* the number of patch processes running
    runs,             \* the call that ran before, into another root
    \* ---- generate_many (generate_fpp.py)
    batch_pc,         \* "loop" | "done" | "aborted"
    attempted,        \* the paths generate_one was called on, in order, each
                      \* with what its generation raised
    successes,        \* the counters of lines 322-334
    failures,
    reports,          \* the failures reported: path and message kind
    uncaught,         \* the exception that left generate_many, if any
    \* ---- generate_fpp_question (generate_fpp.py)
    q_pc,             \* "start" | "dirs" | "question" | "info" | "server" |
                      \* "tests" | "metadata" | "regions" | "done" | "error"
    q_in,             \* the arguments, and the regions extracted
    q_dir,            \* the question directory: path -> content
    q_writes,         \* the files written, in order, each with the step
    q_warnings        \* the warnings emitted, in order

extractVars == <<metadata, data, r_texts, docstring_state, pc, out, err>>
lexVars == <<lex_open, lex_tokens, lex_pc, lex_item>>
registryVars == <<autograders, lookup, fragment>>
populateVars == <<files, call, log>>
lineVars == <<line_call, line_result>>
runVars == <<run_pc, run_backend, run_args, run_root, run_err, run_iter,
             run_patches, run_inflight, runs>>
batchVars == <<batch_pc, attempted, successes, failures, reports, uncaught>>
questionVars == <<q_pc, q_in, q_dir, q_writes, q_warnings>>
generationVars == <<runVars, batchVars, questionVars>>
vars == <<extractVars, lexVars, impl, registryVars, populateVars, lineVars,
          generationVars>>

----------------------------------------------------------------------------
(* Bounds of the model *)

\* the longest token stream parse_fpp_regions is run on
MaxTokens == 3
\* the longest run of source items the tokenizer is run on
MaxItems == 4
\* the longest batch of source paths generate_many is run on
MaxPaths == 3
\* the most pieces a raw line handed to Line.from_fpp_str is made of
MaxPieces == 3

----------------------------------------------------------------------------
(* Python's str operations, on sequences of characters *)

\* characters str.strip() and str.rstrip() remove
Whitespace == {" ", "\t", "\n", "\r"}

\* the line boundaries of str.splitlines() that the inputs use
LineBreaks == {"\n", "\r"}

\* ''.join(list)
RECURSIVE Join(_)
Join(list) ==
    IF list = <<>> THEN <<>> ELSE Head(list) \o Join(Tail(list))

\* str.rstrip()
RECURSIVE RStrip(_)
RStrip(s) ==
    IF s = <<>> THEN <<>>
    ELSE IF s[Len(s)] \in Whitespace THEN RStrip(SubSeq(s, 1, Len(s) - 1))
    ELSE s

\* str.lstrip()
RECURSIVE LStrip(_)
LStrip(s) ==
    IF s = <<>> THEN <<>>
    ELSE IF Head(s) \in Whitespace THEN LStrip(Tail(s))
    ELSE s

\* str.strip()
Strip(s) == LStrip(RStrip(s))

\* str.splitlines(): the lines without their line breaks; "\r\n" is one break,
\* and a break at the very end opens no further line
RECURSIVE SplitLinesFrom(_, _)
SplitLinesFrom(s, cur) ==
    IF s = <<>> THEN (IF cur = <<>> THEN <<>> ELSE <<cur>>)
    ELSE IF Head(s) = "\r" /\ Len(s) >= 2 /\ s[2] = "\n"
         THEN <<cur>> \o SplitLinesFrom(SubSeq(s, 3, Len(s)), <<>>)
    ELSE IF Head(s) \in LineBreaks
         THEN <<cur>> \o SplitLinesFrom(Tail(s), <<>>)
    ELSE SplitLinesFrom(Tail(s), Append(cur, Head(s)))

SplitLines(s) == SplitLinesFrom(s, <<>>)

\* '\n'.join(lines)
RECURSIVE JoinLines(_)
JoinLines(lines) ==
    IF lines = <<>> THEN <<>>
    ELSE IF Len(lines) = 1 THEN lines[1]
    ELSE lines[1] \o <<"\n">> \o JoinLines(Tail(lines))

\* map(str.rstrip, lines)
MapRStrip(lines) == [i \in 1..Len(lines) |-> RStrip(lines[i])]

\* filter(bool, lines): the non-empty lines, in order
RECURSIVE FilterNonEmpty(_)
FilterNonEmpty(lines) ==
    IF lines = <<>> THEN <<>>
    ELSE IF Head(lines) = <<>> THEN FilterNonEmpty(Tail(lines))
    ELSE <<Head(lines)>> \o FilterNonEmpty(Tail(lines))

\* the number of line breaks "\n" in s
RECURSIVE CountNewlines(_)
CountNewlines(s) ==
    IF s = <<>> THEN 0
    ELSE (IF Head(s) = "\n" THEN 1 ELSE 0) + CountNewlines(Tail(s))

\* s starts with p
StartsWith(s, p) == Len(s) >= Len(p) /\ SubSeq(s, 1, Len(p)) = p


----------------------------------------------------------------------------
(* lib/consts.py *)

Digits == {"0", "1", "2", "3", "4", "5", "6", "7", "8", "9"}

\* BLANK_SUBSTITUTE = '!BLANK'
BLANK_SUBSTITUTE == <<"!", "B", "L", "A", "N", "K">>

\* DEFAULT_BLANK_PATTERN = \?([^?\n]*)\? : a blank pattern is modelled by its
\* delimiter d, standing for the regular expression d([^d\n]*)d
DEFAULT_BLANK_PATTERN == [delim |-> "?"]

\* make_blank_re(delimiter): the pattern of a blankDelimiter override
make_blank_re(delimiter) == [delim |-> delimiter]

\* re.match(SPECIAL_COMMENT_PATTERN, text), the pattern being
\* ^#(blank[^#]*|\d+given): "#blank" followed by anything, or "#", one or
\* more digits and "given", followed by anything
IsSpecialCommentMutant(text) ==
    StartsWith(text, <<"#">>)

IsSpecialComment(text) ==
    \/ StartsWith(text, <<"#", "b", "l", "a", "n", "k">>)
    \/ /\ StartsWith(text, <<"#">>)
       /\ \E n \in 1..(Len(text) - 1) :
            /\ \A k \in 2..(n + 1) : text[k] \in Digits
            /\ StartsWith(SubSeq(text, n + 2, Len(text)),
                          <<"g", "i", "v", "e", "n">>)

----------------------------------------------------------------------------
(* lib/tokens.py: regex_chunk_lines *)

\* the end of the blank-pattern match that starts at position i of text, or 0:
\* text[i] is the delimiter and the next delimiter or newline after it is a
\* delimiter
MatchEnd(text, i, d) ==
    IF text[i] # d THEN 0
    ELSE LET stops == {j \in (i + 1)..Len(text) : text[j] \in {d, "\n"}}
         IN  IF stops = {} THEN 0
             ELSE LET j == CHOOSE x \in stops : \A y \in stops : x <= y
                  IN  IF text[j] = d THEN j ELSE 0

\* regex_chunk_lines(pattern, text, line_number): the chunks of text in order,
\* line by line, each with the number of its line: a match of the pattern
\* (found, with the captured group) or the span between two matches
RECURSIVE ChunksFrom(_, _, _, _, _)
ChunksFrom(text, pos, start, line, d) ==
    LET span(a, b) == IF a <= b
                      THEN <<[line |-> line, found |-> FALSE,
                              chunk |-> SubSeq(text, a, b)]>>
                      ELSE <<>>
    IN  IF pos > Len(text) THEN span(start, Len(text))
        ELSE LET j == MatchEnd(text, pos, d)
             IN  IF j > 0
                 THEN span(start, pos - 1)
                      \o <<[line |-> line, found |-> TRUE,
                            chunk |-> SubSeq(text, pos + 1, j - 1)]>>
                      \o ChunksFrom(text, j + 1, j + 1, line, d)
                 ELSE IF text[pos] = "\n"
                 THEN span(start, pos)
                      \o ChunksFrom(text, pos + 1, pos + 1, line + 1, d)
                 ELSE ChunksFrom(text, pos + 1, start, line, d)

regex_chunk_lines(blank_re, text, line_number) ==
    ChunksFrom(text, 1, 1, line_number, blank_re.delim)

----------------------------------------------------------------------------
(* generate_fpp.py: parse_blanks *)

\* the first chunk that is a match capturing empty text, or 0
FirstEmptyBlank(chunks) ==
    LET bad == {i \in 1..Len(chunks) :
                    chunks[i].found /\ chunks[i].chunk = <<>>}
    IN  IF bad = {} THEN 0 ELSE CHOOSE i \in bad : \A k \in bad : i <= k

\* one (answer, prompt) pair per chunk
BlankPairMutant(c) ==
    IF c.found THEN <<BLANK_SUBSTITUTE, c.chunk>> ELSE <<c.chunk, c.chunk>>

BlankPair(c) ==
    IF c.found THEN <<c.chunk, BLANK_SUBSTITUTE>> ELSE <<c.chunk, c.chunk>>

\* the (answer, prompt) pairs the generator yields before it ends or raises,
\* and the line number of the SyntaxError it raises (0: it ends normally)
parse_blanks_mutant(tkn, blank_re) ==
    LET chunks == regex_chunk_lines(blank_re, tkn.text, tkn.lineno)
    IN  [pairs |-> [i \in 1..Len(chunks) |-> BlankPair(chunks[i])],
         raised |-> 0]

parse_blanks(tkn, blank_re) ==
    LET chunks == regex_chunk_lines(blank_re, tkn.text, tkn.lineno)
        e == FirstEmptyBlank(chunks)
        n == IF e = 0 THEN Len(chunks) ELSE e - 1
    IN  [pairs |-> [i \in 1..n |-> BlankPair(chunks[i])],
         raised |-> IF e = 0 THEN 0 ELSE chunks[e].line]

----------------------------------------------------------------------------
(* generate_fpp.py: parse_fpp_regions *)

\* class DocstringState(IntEnum)
Accepting == 0
FollowWithNewline == 1
Finished == 2
Skipped == 3

\* the texts of the tokens the model runs the extractor on; the docstring
\* '''?Q?''', the comment "#?n?" and the string '?s?' hold what would be a
\* blank in code
DocText == <<"'", "'", "'", "?", "Q", "?", "'", "'", "'">>
NoteComment == <<"#", "?", "n", "?">>
GivenComment == <<"#", "3", "g", "i", "v", "e", "n">>
BlankComment == <<"#", "b", "l", "a", "n", "k">>
PlainGivenComment == <<"#", "g", "i", "v", "e", "n">>
StringText == <<"'", "?", "s", "?", "'">>
\* "?x + 1?"
BlankCode == <<"?", "x", " ", "+", " ", "1", "?">>
\* "a ?b? \n\nc?d": code around a blank, a line ending in a space, an empty
\* line, and a "?" that closes no blank
MixedCode == <<"a", " ", "?", "b", "?", " ", "\n", "\n", "c", "?", "d">>
\* "z\n??": an empty blank of the default pattern, on the token's second line
EmptyBlankCode == <<"z", "\n", "?", "?">>
\* "$y$\n$$": a blank and an empty blank of the pattern of delimiter "$"
CustomBlankCode == <<"$", "y", "$", "\n", "$", "$">>
\* " t ?b?\n"
RegionText == <<" ", "t", " ", "?", "b", "?", "\n">>

\* the tokens a stream is made of: type, text, and the region the tokenizer
\* tagged the token with ("" for none)
TokenInputs ==
    {[type |-> "DOCSTRING", text |-> DocText, region |-> ""],
     [type |-> "COMMENT", text |-> NoteComment, region |-> ""],
     [type |-> "COMMENT", text |-> GivenComment, region |-> ""],
     [type |-> "COMMENT", text |-> BlankComment, region |-> ""],
     [type |-> "COMMENT", text |-> PlainGivenComment, region |-> ""],
     [type |-> "STRING", text |-> StringText, region |-> ""],
     [type |-> "UNMATCHED", text |-> BlankCode, region |-> ""],
     [type |-> "UNMATCHED", text |-> MixedCode, region |-> ""],
     [type |-> "UNMATCHED", text |-> EmptyBlankCode, region |-> ""],
     [type |-> "UNMATCHED", text |-> CustomBlankCode, region |-> ""],
     [type |-> "UNMATCHED", text |-> RegionText, region |-> "question_text"],
     [type |-> "UNMATCHED", text |-> <<>>, region |-> "question_text"],
     [type |-> "COMMENT", text |-> GivenComment, region |-> "test"],
     [type |-> "DOCSTRING", text |-> DocText, region |-> "test"],
     [type |-> "STRING", text |-> StringText, region |-> "prompt_code"]}

\* the front-matter the streams come with: none, or a blankDelimiter override
MetadataInputs == {<<>>, [blankDelimiter |-> "$"]}

\* the line the next token starts on: the tokenizer numbers a token by the
\* line breaks before it
NextLineno(tokens) ==
    1 + CountNewlines(Join([i \in 1..Len(tokens) |-> tokens[i].text]))

\* lines 35-38
BlankRe(md) ==
    IF "blankDelimiter" \in DOMAIN md
    THEN make_blank_re(md["blankDelimiter"])
    ELSE DEFAULT_BLANK_PATTERN

\* r_texts[k] of the defaultdict(list)
Get(r, k) == IF k \in DOMAIN r THEN r[k] ELSE <<>>

\* r_texts[k].extend(frags)
Extend(r, k, frags) ==
    [x \in DOMAIN r \cup {k} |-> IF x = k THEN Get(r, k) \o frags ELSE r[x]]

\* line 86: docstring_state = docstring_state or DocstringState.Skipped
DowngradeMutant(s) == s

DowngradeToFinished(s) == IF s = Accepting THEN Finished ELSE s

Downgrade(s) == IF s = Accepting THEN Skipped ELSE s

\* lines 50, 51: the loop takes the next token of the stream
TakeToken(t) ==
    /\ pc = "loop"
    /\ Len(data) < MaxTokens
    /\ data' = Append(data, [type |-> t.type, text |-> t.text,
                             region |-> t.region, lineno |-> NextLineno(data)])
    /\ UNCHANGED <<metadata, out>>
    /\ UNCHANGED <<lexVars, impl, registryVars, populateVars, lineVars,
                 generationVars>>

\* line 51: if not tkn.text: continue
SkipEmptyTokenResets(t) ==
    /\ TakeToken(t)
    /\ t.text = <<>>
    /\ docstring_state' = Accepting
    /\ UNCHANGED <<r_texts, pc, err>>

SkipEmptyToken(t) ==
    /\ TakeToken(t)
    /\ t.text = <<>>
    /\ UNCHANGED <<r_texts, docstring_state, pc, err>>

\* lines 53-58: a token tagged with a region
RegionTokenMutant(t) ==
    /\ TakeToken(t)
    /\ t.text # <<>>
    /\ t.region # ""
    /\ r_texts' = Extend(Extend(r_texts, t.region, <<t.text>>),
                         "answer_code", <<t.text>>)
    /\ UNCHANGED <<docstring_state, pc, err>>

RegionTokenNoSeparator(t) ==
    /\ TakeToken(t)
    /\ t.text # <<>>
    /\ t.region # ""
    /\ r_texts' = Extend(r_texts, t.region, <<t.text>>)
    /\ docstring_state' =
          IF t.region = "question_text" /\ docstring_state = FollowWithNewline
          THEN Finished ELSE docstring_state
    /\ UNCHANGED <<pc, err>>

RegionToken(t) ==
    /\ TakeToken(t)
    /\ t.text # <<>>
    /\ t.region # ""
    /\ IF t.region = "question_text" /\ docstring_state = FollowWithNewline
       THEN /\ r_texts' = Extend(r_texts, t.region, <<<<"\n">>, t.text>>)
            /\ docstring_state' = Finished
       ELSE /\ r_texts' = Extend(r_texts, t.region, <<t.text>>)
            /\ UNCHANGED docstring_state
    /\ UNCHANGED <<pc, err>>

\* lines 60-71, 86: an untagged docstring
DocstringTokenMutant(t) ==
    /\ TakeToken(t)
    /\ t.text # <<>>
    /\ t.region = ""
    /\ t.type = "DOCSTRING"
    /\ r_texts' = Extend(Extend(r_texts, "prompt_code", <<t.text>>),
                         "answer_code", <<t.text>>)
    /\ docstring_state' = Downgrade(docstring_state)
    /\ UNCHANGED <<pc, err>>

DocstringToken(t) ==
    /\ TakeToken(t)
    /\ t.text # <<>>
    /\ t.region = ""
    /\ t.type = "DOCSTRING"
    /\ IF docstring_state = Accepting
       THEN LET qs == Get(r_texts, "question_text")
                inner == SubSeq(t.text, 4, Len(t.text) - 3)
            IN  IF qs # <<>>
                THEN /\ r_texts' = Extend(r_texts, "question_text",
                                          <<<<"\n">>, inner>>)
                     /\ docstring_state' = Downgrade(Finished)
                ELSE /\ r_texts' = Extend(r_texts, "question_text", <<inner>>)
                     /\ docstring_state' = Downgrade(FollowWithNewline)
       ELSE /\ r_texts' = Extend(Extend(r_texts, "prompt_code", <<t.text>>),
                                 "answer_code", <<t.text>>)
            /\ docstring_state' = Downgrade(docstring_state)
    /\ UNCHANGED <<pc, err>>

\* lines 72-75, 86: an untagged comment
CommentToken(t) ==
    /\ TakeToken(t)
    /\ t.text # <<>>
    /\ t.region = ""
    /\ t.type = "COMMENT"
    /\ LET target == IF IsSpecialComment(t.text)
                     THEN "prompt_code" ELSE "answer_code"
       IN  r_texts' = Extend(r_texts, target, <<t.text>>)
    /\ docstring_state' = Downgrade(docstring_state)
    /\ UNCHANGED <<pc, err>>

\* lines 76-78, 86: an untagged single-line string literal
StringTokenMutant(t) ==
    /\ TakeToken(t)
    /\ t.text # <<>>
    /\ t.region = ""
    /\ t.type = "STRING"
    /\ LET tkn == [type |-> t.type, text |-> t.text, region |-> t.region,
                   lineno |-> NextLineno(data)]
           res == parse_blanks(tkn, BlankRe(metadata))
           n == Len(res.pairs)
       IN  r_texts' = Extend(Extend(r_texts, "answer_code",
                                    [i \in 1..n |-> res.pairs[i][1]]),
                             "prompt_code",
                             [i \in 1..n |-> res.pairs[i][2]])
    /\ docstring_state' = Downgrade(docstring_state)
    /\ UNCHANGED <<pc, err>>

StringToken(t) ==
    /\ TakeToken(t)
    /\ t.text # <<>>
    /\ t.region = ""
    /\ t.type = "STRING"
    /\ r_texts' = Extend(Extend(r_texts, "prompt_code", <<t.text>>),
                         "answer_code", <<t.text>>)
    /\ docstring_state' = Downgrade(docstring_state)
    /\ UNCHANGED <<pc, err>>

\* lines 79-82, 86: untagged code; the pairs parse_blanks yields are appended
\* one by one, and a SyntaxError it raises leaves the loop and the function
UnmatchedToken(t) ==
    /\ TakeToken(t)
    /\ t.text # <<>>
    /\ t.region = ""
    /\ t.type = "UNMATCHED"
    /\ LET tkn == [type |-> t.type, text |-> t.text, region |-> t.region,
                   lineno |-> NextLineno(data)]
           res == parse_blanks(tkn, BlankRe(metadata))
           n == Len(res.pairs)
       IN  /\ r_texts' = Extend(Extend(r_texts, "answer_code",
                                       [i \in 1..n |-> res.pairs[i][1]]),
                                "prompt_code",
                                [i \in 1..n |-> res.pairs[i][2]])
           /\ IF res.raised = 0
              THEN /\ docstring_state' = Downgrade(docstring_state)
                   /\ UNCHANGED <<pc, err>>
              ELSE /\ pc' = "error"
                   /\ err' = [type |-> "SyntaxError", line |-> res.raised]
                   /\ UNCHANGED docstring_state

\* lines 89-94: the text of region k from its fragments
FinalizeMutant(k, region_list) ==
    JoinLines(MapRStrip(SplitLines(Join(region_list))))

Finalize(k, region_list) ==
    LET ls == MapRStrip(SplitLines(Join(region_list)))
    IN  Strip(JoinLines(IF k = "prompt_code" THEN FilterNonEmpty(ls) ELSE ls))

\* lines 88-96: the stream is exhausted; the region map is built and returned
ReturnRegions ==
    /\ pc = "loop"
    /\ pc' = "done"
    /\ out' = [k \in DOMAIN r_texts \cup {"metadata"} |->
                 IF k \in DOMAIN r_texts THEN Finalize(k, r_texts[k])
                 ELSE metadata]
    /\ UNCHANGED <<metadata, data, r_texts, docstring_state, err>>
    /\ UNCHANGED <<lexVars, impl, registryVars, populateVars, lineVars,
                 generationVars>>

parse_fpp_regions ==
    \/ \E t \in TokenInputs :
          \/ SkipEmptyToken(t)
          \/ RegionToken(t)
          \/ DocstringToken(t)
          \/ CommentToken(t)
          \/ StringToken(t)
          \/ UnmatchedToken(t)
    \/ ReturnRegions

InitExtract ==
    /\ metadata \in MetadataInputs
    /\ data = <<>>
    /\ r_texts = [k \in {"answer_code", "prompt_code"} |-> <<>>]
    /\ docstring_state = Accepting
    /\ pc = "loop"
    /\ out = <<>>
    /\ err = <<>>

----------------------------------------------------------------------------
(* lib/tokens.py: lex, the region bookkeeping of the tokenizer *)

\* the source items the tokenizer meets: a region delimiter "## name ##", an
\* import region "## import path as name ##", or a span of one of the four
\* other kinds
RegionNames == {"question_text", "test"}
ItemInputs ==
    {[kind |-> "region", name |-> n] : n \in RegionNames}
    \cup {[kind |-> "import", name |-> "server"]}
    \cup {[kind |-> k, name |-> ""] : k \in {"COMMENT", "DOCSTRING", "UNMATCHED"}}

\* the region a token is tagged with: the innermost open region, "" for none
CurrentRegion(open) == IF open = <<>> THEN "" ELSE open[Len(open)]

\* the tokenizer takes the next item of the source
TakeItem(item) ==
    /\ lex_pc = "scan"
    /\ Len(lex_tokens) < MaxItems
    /\ lex_item' = item
    /\ UNCHANGED <<extractVars, impl, registryVars, populateVars, lineVars,
                 generationVars>>

\* a region delimiter: it closes the open region of its name, opens a region
\* when none is open, and is a SyntaxError when another region is open
LexRegionMutant(item) ==
    /\ TakeItem(item)
    /\ item.kind = "region"
    /\ IF CurrentRegion(lex_open) = item.name
       THEN lex_open' = SubSeq(lex_open, 1, Len(lex_open) - 1)
       ELSE lex_open' = Append(lex_open, item.name)
    /\ lex_tokens' = Append(lex_tokens,
                            [type |-> "Region",
                             region |-> CurrentRegion(lex_open)])
    /\ UNCHANGED lex_pc

LexRegion(item) ==
    /\ TakeItem(item)
    /\ item.kind = "region"
    /\ IF lex_open = <<>>
       THEN /\ lex_open' = <<item.name>>
            /\ lex_tokens' = Append(lex_tokens,
                                    [type |-> "Region", region |-> ""])
            /\ UNCHANGED lex_pc
       ELSE IF CurrentRegion(lex_open) = item.name
       THEN /\ lex_open' = <<>>
            /\ lex_tokens' = Append(lex_tokens,
                                    [type |-> "Region", region |-> ""])
            /\ UNCHANGED lex_pc
       ELSE /\ lex_pc' = "error"
            /\ UNCHANGED <<lex_open, lex_tokens>>

\* an import region: the file's text as one token of the named region; a
\* SyntaxError inside an open region
LexImport(item) ==
    /\ TakeItem(item)
    /\ item.kind = "import"
    /\ IF lex_open = <<>>
       THEN /\ lex_tokens' = Append(lex_tokens,
                                    [type |-> "ImportRegion", region |-> item.name])
            /\ UNCHANGED <<lex_open, lex_pc>>
       ELSE /\ lex_pc' = "error"
            /\ UNCHANGED <<lex_open, lex_tokens>>

\* a comment, docstring, string or code span: a token tagged with the open
\* region
LexSpan(item) ==
    /\ TakeItem(item)
    /\ item.kind \notin {"region", "import"}
    /\ lex_tokens' = Append(lex_tokens,
                            [type |-> item.kind,
                             region |-> CurrentRegion(lex_open)])
    /\ UNCHANGED <<lex_open, lex_pc>>

\* the end of the source: a SyntaxError when a region is still open
LexEnd ==
    /\ lex_pc = "scan"
    /\ lex_item' = [kind |-> "eof", name |-> ""]
    /\ lex_pc' = IF lex_open = <<>> THEN "done" ELSE "error"
    /\ UNCHANGED <<lex_open, lex_tokens>>
    /\ UNCHANGED <<extractVars, impl, registryVars, populateVars, lineVars,
                 generationVars>>

lex ==
    \/ \E item \in ItemInputs :
          \/ LexRegion(item)
          \/ LexImport(item)
          \/ LexSpan(item)
    \/ LexEnd

InitLex ==
    /\ lex_open = <<>>
    /\ lex_tokens = <<>>
    /\ lex_pc = "scan"
    /\ lex_item = <<>>

----------------------------------------------------------------------------
(* lib/autograde.py: the registry of autograders *)

\* the two copies of lib/autograde.py: src/fppgen/lib ("fppgen") and src/lib
\* ("lib"); a process loads one of them
Impls == {"fppgen", "lib"}

\* the autograder classes each copy defines
Classes(i) ==
    IF i = "fppgen"
    THEN {"PythonAutograder", "RubyAutograder", "RSpecAutograder"}
    ELSE {"PythonAutograder", "RubyAutograder"}

DotPy == <<".", "p", "y">>
DotRb == <<".", "r", "b">>
DotRspec == <<".", "r", "s", "p", "e", "c">>
Fpp == <<"f", "p", "p">>

\* the extensions registered: a name, with or without its leading dot
RegisterInputs == {DotPy, Tail(DotPy), DotRb, Tail(DotRb), DotRspec}

\* the extensions looked up
LookupInputs ==
    RegisterInputs \cup {Tail(DotRspec), Fpp, <<>>, <<".", "t">>}

\* autograders.update(kvs), kvs a set of <<key, value>> pairs
Update(dict, kvs) ==
    LET keys == {kv[1] : kv \in kvs}
    IN  [k \in DOMAIN dict \cup keys |->
            IF k \in keys THEN (CHOOSE kv \in kvs : kv[1] = k)[2] ELSE dict[k]]

\* autograders.get(extension, default)
DictGet(dict, k, default) == IF k \in DOMAIN dict THEN dict[k] ELSE default

\* src/fppgen/lib/autograde.py, lines 50, 51
with_dot(extension) ==
    (IF extension[1] = "." THEN <<>> ELSE <<".">>) \o extension
without_dot(extension) ==
    IF extension[1] = "." THEN Tail(extension) ELSE extension

\* the keys one registration sets
RegisteredKeys(i, extension) ==
    IF i = "fppgen"
    THEN {with_dot(extension), without_dot(extension)}
    ELSE {extension}

\* @register_autograder(extension) on class cls: both keys in src/fppgen/lib,
\* the extension as given in src/lib
register_autograder(extension, cls) ==
    /\ extension # <<>>
    /\ cls \in Classes(impl)
    /\ autograders' = Update(autograders,
                             {<<k, cls>> : k \in RegisteredKeys(impl, extension)})
    /\ UNCHANGED <<impl, lookup, fragment>>
    /\ UNCHANGED <<extractVars, lexVars, populateVars, lineVars, generationVars>>

\* the warnings of new_autograder_from_ext, lines 60-67
LookupWarnings(dict, extension) ==
    IF extension \in DOMAIN dict THEN <<>>
    ELSE IF extension \in {Fpp, <<>>}
    THEN <<[msg |-> "Autograder not specified!", names |-> <<>>]>>
    ELSE <<[msg |-> "Autograder for extension not found!",
            names |-> <<extension>>]>>

\* src/fppgen/lib/autograde.py: new_autograder_from_ext(extension)
new_autograder_from_ext(extension) ==
    /\ impl = "fppgen"
    /\ lookup' = [extension |-> extension,
                  cls |-> DictGet(autograders, extension, "PythonAutograder"),
                  warnings |-> LookupWarnings(autograders, extension)]
    /\ UNCHANGED <<impl, autograders, fragment>>
    /\ UNCHANGED <<extractVars, lexVars, populateVars, lineVars, generationVars>>

\* src/generate_fpp.py, lines 181-183 (it calls populate_tests_dir with the
\* arguments of the src/lib copy): ag = autograders.get(extension,
\* PythonAutograder); autograder = ag()
generate_fpp_question_lookup(extension) ==
    /\ impl = "lib"
    /\ lookup' = [extension |-> extension,
                  cls |-> DictGet(autograders, extension, "PythonAutograder"),
                  warnings |-> <<>>]
    /\ UNCHANGED <<impl, autograders, fragment>>
    /\ UNCHANGED <<extractVars, lexVars, populateVars, lineVars, generationVars>>

\* the dict an info_json_update returns, keys and values as written in the
\* source
Fragment(image, entrypoint, timeout) ==
    [gradingMethod |-> "External",
     externalGradingOptions |-> [enabled |-> TRUE,
                                 image |-> image,
                                 entrypoint |-> entrypoint,
                                 timeout |-> timeout]]

InfoJsonUpdateMutant(i, cls) ==
    [gradingMethod |-> "External",
     externalGradingOptions |-> [enabled |-> TRUE,
                                 image |-> "prairielearn/grader-python"]]

\* info_json_update of the classes of either copy: PythonAutograder,
\* RubyAutograder (its image differs between the copies) and RSpecAutograder
InfoJsonUpdate(i, cls) ==
    IF cls = "PythonAutograder"
    THEN Fragment("prairielearn/grader-python", "/python_autograder/run.sh", 5)
    ELSE IF cls = "RubyAutograder"
    THEN Fragment(IF i = "fppgen" THEN "saasbook/pl-fpp-ruby-autograder"
                  ELSE "nalsoon/ruby-autograder",
                  "/grader/run.py", 30)
    ELSE Fragment("saasbook/pl-rspec-autograder", "/grader/run.py", 60)

\* autograder.info_json_update() on the autograder looked up, as
\* generate_info_json calls it (src/generate_fpp.py, line 163)
info_json_update ==
    /\ lookup # <<>>
    /\ fragment' = InfoJsonUpdate(impl, lookup.cls)
    /\ UNCHANGED <<impl, autograders, lookup>>
    /\ UNCHANGED <<extractVars, lexVars, populateVars, lineVars, generationVars>>

registry ==
    \/ \E extension \in RegisterInputs, cls \in Classes("fppgen") :
          register_autograder(extension, cls)
    \/ \E extension \in LookupInputs : new_autograder_from_ext(extension)
    \/ \E extension \in LookupInputs : generate_fpp_question_lookup(extension)
    \/ info_json_update

\* autograders = {} (line 47 of src/fppgen/lib, line 32 of src/lib)
InitRegistry ==
    /\ impl \in Impls
    /\ autograders = <<>>
    /\ lookup = <<>>
    /\ fragment = <<>>

----------------------------------------------------------------------------
(* lib/autograde.py: PythonAutograder.populate_tests_dir *)

\* File contents are sequences of pieces of text; \o concatenates.

\* TEST_DEFAULT, the template tests/test.py (consts.py line 52): Python, not JSON
TEST_DEFAULT == <<"<template test.py>">>

\* the test regions of the inputs: none, a Python test file, a JSON test
\* specification, and JSON that is no test specification
PyTestRegion == <<"def test(): pass">>
JsonTestRegion == <<"{tests: [...]}">>
JsonOtherRegion == <<"[1, 2]">>
TestRegionInputs == {<<>>, PyTestRegion, JsonTestRegion, JsonOtherRegion}

\* json.loads(text) succeeds
IsJson(text) == text \in {JsonTestRegion, JsonOtherRegion}

\* lib/generate_test.py: make_test_file(json) returns the test script of a
\* test specification and raises on anything else
MakeTestFileOk(text) == text = JsonTestRegion
MakeTestFile(text) == <<"<test.py compiled from ">> \o text \o <<">">>

PopulateInputs ==
    [answer_code : {<<>>, <<"x = 1">>},
     setup_code : {<<"import m">>},
     test_region : TestRegionInputs,
     pre_code : {<<>>, <<"pre">>},
     post_code : {<<>>, <<"post">>},
     log_details : BOOLEAN]

\* the content of tests/ans.py: line 104 of src/fppgen/lib, line 74 of src/lib
AnsContentMutant(i, a) == a.pre_code \o a.answer_code \o a.post_code

AnsContent(i, a) ==
    IF i = "fppgen"
    THEN a.pre_code \o <<"\n">> \o a.answer_code \o <<"\n">> \o a.post_code
    ELSE a.answer_code

\* lines 86-101: the test script, and whether it was compiled from JSON. The
\* inner handler catches every Exception (SyntaxError among them), so the
\* outer handler of SyntaxError is never entered.
TestFileMutant(a) ==
    LET test_region == IF a.test_region # <<>> THEN a.test_region
                       ELSE TEST_DEFAULT
        success == IsJson(test_region) /\ MakeTestFileOk(test_region)
    IN  [test_region |-> test_region,
         success |-> success,
         test_file |-> IF IsJson(test_region) THEN MakeTestFile(test_region)
                       ELSE test_region]

TestFile(a) ==
    LET test_region == IF a.test_region # <<>> THEN a.test_region
                       ELSE TEST_DEFAULT
        success == IsJson(test_region) /\ MakeTestFileOk(test_region)
    IN  [test_region |-> test_region,
         success |-> success,
         test_file |-> IF success THEN MakeTestFile(test_region)
                       ELSE test_region]

\* the write_to calls of one populate_tests_dir call, in order
PopulateWritesMutant(i, a) ==
    LET t == TestFile(a)
    IN  (IF t.success
         THEN <<<<"test_source.json", t.test_region>>>> ELSE <<>>)
        \o <<<<"test.py", t.test_file>>,
             <<"ans.py", AnsContent(i, a)>>>>

PopulateWrites(i, a) ==
    LET t == TestFile(a)
    IN  (IF t.success /\ a.log_details
         THEN <<<<"test_source.json", t.test_region>>>> ELSE <<>>)
        \o <<<<"test.py", t.test_file>>,
             <<"ans.py", AnsContent(i, a)>>,
             <<"setup_code.py", a.setup_code>>>>

\* what one call logs: lines 94, 95
PopulateLog(a) ==
    IF TestFile(a).success /\ a.log_details
    THEN <<[level |-> "info",
            msg |-> "Generating tests/test.py from json test region"]>>
    ELSE <<>>

\* the directory after the writes, the later write of a name winning
RECURSIVE WriteAll(_, _)
WriteAll(dir, writes) ==
    IF writes = <<>> THEN dir
    ELSE WriteAll([n \in DOMAIN dir \cup {Head(writes)[1]} |->
                      IF n = Head(writes)[1] THEN Head(writes)[2] ELSE dir[n]],
                  Tail(writes))

\* PythonAutograder.populate_tests_dir(test_dir, answer_code, setup_code,
\* test_region, [source_dir,] pre_code, post_code, log_details)
PythonPopulate(a) ==
    /\ files' = WriteAll(files, PopulateWrites(impl, a))
    /\ call' = [args |-> a, writes |-> PopulateWrites(impl, a)]
    /\ log' = PopulateLog(a)
    /\ UNCHANGED <<impl, registryVars, extractVars, lexVars, generationVars,
                 lineVars>>

populate == \E a \in PopulateInputs : PythonPopulate(a)

\* a tests directory with nothing in it
InitPopulate ==
    /\ impl \in Impls
    /\ files = <<>>
    /\ call = <<>>
    /\ log = <<>>

----------------------------------------------------------------------------
(* src/fppgen/lib/autograde.py: populate_tests_dir of PythonAutograder,      *)
(* RubyAutograder and RSpecAutograder, each call into a fresh tests          *)
(* directory                                                                 *)

\* A path is the sequence of its components; a directory holds DirEntry.
DirEntry == <<"<dir>">>

\* write_to(dir, name, text), makedirs(dir): the tree with one more entry
Put(tree, p, content) ==
    [q \in DOMAIN tree \cup {p} |-> IF q = p THEN content ELSE tree[q]]

\* the tree after the writes <<path, content>> of ws, in order
RECURSIVE PutAll(_, _)
PutAll(tree, ws) ==
    IF ws = <<>> THEN tree
    ELSE PutAll(Put(tree, Head(ws)[1], Head(ws)[2]), Tail(ws))

\* DEFAULT_GEMFILE, lines 21-25
DEFAULT_GEMFILE == <<"source 'https://www.rubygems.org'\n\ngem 'rspec'\ngem 'json'\n">>

\* the directory the calls are given as source_dir, and what is in it: one
\* system under test, the directory app with the files a.rb and b.rb
SourceDir == <<"q">>
AppName == <<"a", "p", "p">>
SutFiles == [f \in {"a.rb", "b.rb"} |-> IF f = "a.rb" THEN <<"A">> ELSE <<"B">>]

\* setup_code of the RSpec calls: the name of the system under test within
\* whitespace, and a name that is no directory of source_dir
SetupApp == <<" ", "a", "p", "p", "\n">>
SetupMissing == <<"l", "i", "b">>

\* line 223: path.join(path.dirname(f"{source_dir}/"), setup_code.strip() + "/")
AppDirMutant(source_dir, setup_code) == [dir |-> source_dir, name |-> setup_code]

AppDir(source_dir, setup_code) ==
    [dir |-> source_dir, name |-> Strip(setup_code)]

\* path.isdir(app_dir)
IsDir(app_dir) == app_dir.dir = SourceDir /\ app_dir.name = AppName

\* the test regions of the RSpec calls: text that is no YAML, the empty text
\* (YAML for None), a mapping without the key mutations, and two mutation
\* documents, the second with a patch that does not apply
BadYaml == <<"mutations: [">>
NoMutationsDoc == <<"submission_file: a.rb">>
BadPatch == <<"<no patch>">>
DocAllValid == <<"mutations: {v1: {a.rb: p1}, v2: {a.rb: p2, b.rb: p3}}">>
DocOneInvalid == <<"mutations: {v1: {a.rb: p1}, v2: {a.rb: <no patch>, b.rb: p3}}">>

\* yaml_load(test_region, Loader=Yaml_Loader) raises YAMLError
YamlFails(text) == text = BadYaml

\* the document loaded is a mapping
IsMapping(text) == text \in {NoMutationsDoc, DocAllValid, DocOneInvalid}

\* "mutations" in testing_data
HasMutations(text) == text \in {DocAllValid, DocOneInvalid}

\* list(testing_data["mutations"].items()), each data["files"] as its list of
\* items: dicts keep the order of the document
Mutations(text) ==
    IF text = DocAllValid
    THEN << [variant |-> "v1",
             files |-> << [file |-> "a.rb", patch |-> <<"p1">>] >>],
            [variant |-> "v2",
             files |-> << [file |-> "a.rb", patch |-> <<"p2">>],
                          [file |-> "b.rb", patch |-> <<"p3">>] >>] >>
    ELSE IF text = DocOneInvalid
    THEN << [variant |-> "v1",
             files |-> << [file |-> "a.rb", patch |-> <<"p1">>] >>],
            [variant |-> "v2",
             files |-> << [file |-> "a.rb", patch |-> BadPatch],
                          [file |-> "b.rb", patch |-> <<"p3">>] >>] >>
    ELSE <<>>

\* json_dumps(testing_data) after lines 215, 216
MetaJson(text, pre_code, post_code) ==
    <<"{">> \o text \o <<", pre-text: ">> \o pre_code
            \o <<", post-text: ">> \o post_code \o <<"}">>

\* the patch tool (patch --normal -o out_file in_file, the patch on its
\* input): its exit status, and the text it writes to out_file when it exits
\* with 0; it is taken to leave no out_file otherwise
PatchStatus(content, patch_str) == IF patch_str = BadPatch THEN 1 ELSE 0
Patched(content, patch_str) == content \o <<" patched by ">> \o patch_str

\* the arguments of the calls
RunInputs ==
    [answer_code : {<<"x = 1">>},
     setup_code : {SetupApp, SetupMissing},
     test_region : {<<>>, BadYaml, NoMutationsDoc, DocAllValid, DocOneInvalid,
                    JsonTestRegion},
     source_dir : {SourceDir},
     pre_code : {<<>>, <<"pre">>},
     post_code : {<<>>},
     log_details : BOOLEAN]

\* the call is entered with an empty tests directory
EnterRun(backend, a) ==
    /\ run_pc = "idle"
    /\ run_backend' = backend
    /\ run_args' = a
    /\ run_err' = <<>>
    /\ run_iter' = [v |-> 1, f |-> 0]
    /\ run_patches' = <<>>
    /\ run_inflight' = 0
    /\ UNCHANGED runs
    /\ UNCHANGED <<extractVars, lexVars, impl, registryVars, populateVars, lineVars,
                   batchVars, questionVars>>

\* what a step of a call leaves alone
RunFrame ==
    /\ UNCHANGED <<run_backend, run_args, runs>>
    /\ UNCHANGED <<extractVars, lexVars, impl, registryVars, populateVars, lineVars,
                   batchVars, questionVars>>

\* the call raises
Raise(e) ==
    /\ run_pc' = "error"
    /\ run_err' = e

\* the write_to calls of PopulateWrites, as writes to paths
RECURSIVE AsPaths(_)
AsPaths(ws) ==
    IF ws = <<>> THEN <<>>
    ELSE << << <<Head(ws)[1]>>, Head(ws)[2] >> >> \o AsPaths(Tail(ws))

\* PythonAutograder.populate_tests_dir, lines 84-105
PythonRun ==
    \E a \in RunInputs :
        /\ EnterRun("python", a)
        /\ run_root' = PutAll(<<>>, AsPaths(PopulateWrites("fppgen", a)))
        /\ run_pc' = "done"

RubyWritesMutant(a) ==
    << << <<"app">>, DirEntry >>,
       << <<"app", "script.rb">>, a.setup_code >>,
       << <<"meta.json">>, IF runs = <<>> THEN <<"first">> ELSE <<"second">> >>,
       << <<"solution">>, a.answer_code >> >>

\* RubyAutograder.populate_tests_dir, lines 126-149
RubyWrites(a) ==
    << << <<"app">>, DirEntry >>,
       << <<"app", "spec">>, DirEntry >>,
       << <<"app", "spec", "script_spec.rb">>,
          <<"require_relative '../script.rb'\n\n">> \o a.test_region >>,
       << <<"app", "script.rb">>, a.setup_code >>,
       << <<"app", "Gemfile">>, DEFAULT_GEMFILE >>,
       << <<"meta.json">>,
          <<"{submission_file: script.rb, submission_root: , ",
            "submit_to_line: -1, pre-text: ">> \o a.pre_code
             \o <<"\n", ", post-text: ">> \o a.post_code
             \o <<"\n", ", grading_exclusions: []}">> >>,
       << <<"solution">>, a.answer_code >> >>

RubyRun ==
    \E a \in RunInputs :
        /\ EnterRun("ruby", a)
        /\ run_root' = PutAll(<<>>, RubyWrites(a))
        /\ run_pc' = "done"

\* RSpecAutograder.populate_tests_dir is entered, lines 193-200
RSpecRun ==
    \E a \in RunInputs :
        /\ EnterRun("rspec", a)
        /\ run_root' = <<>>
        /\ run_pc' = "solution"

\* lines 204-208: 1) the solution
WriteSolution ==
    /\ run_pc = "solution"
    /\ run_root' = PutAll(run_root,
          << << <<"solution">>, DirEntry >>,
             << <<"solution", "_submission_file">>, run_args.answer_code >> >>)
    /\ run_pc' = "meta"
    /\ UNCHANGED <<run_err, run_iter, run_patches, run_inflight>>
    /\ RunFrame

\* lines 211-219: 2) the test region is loaded as YAML and written as
\* meta.json with pre-text and post-text; a YAMLError becomes a
\* GenerationError; a document that is no mapping makes line 215 raise
LoadTestingDataMutant ==
    /\ run_pc = "meta"
    /\ IF YamlFails(run_args.test_region) \/ ~IsMapping(run_args.test_region)
       THEN /\ Raise([type |-> "TypeError", names |-> <<>>])
            /\ run_root' = Put(run_root, <<"meta.json">>, <<>>)
       ELSE /\ run_root' = Put(run_root, <<"meta.json">>,
                               MetaJson(run_args.test_region,
                                        run_args.pre_code, run_args.post_code))
            /\ run_pc' = "common"
            /\ UNCHANGED run_err
    /\ UNCHANGED <<run_iter, run_patches, run_inflight>>
    /\ RunFrame

LoadTestingData ==
    /\ run_pc = "meta"
    /\ IF YamlFails(run_args.test_region)
       THEN /\ Raise([type |-> "GenerationError",
                      names |-> <<"Could not parse YAML in test region!">>])
            /\ UNCHANGED run_root
       ELSE IF ~IsMapping(run_args.test_region)
       THEN /\ Raise([type |-> "TypeError", names |-> <<>>])
            /\ UNCHANGED run_root
       ELSE /\ run_root' = Put(run_root, <<"meta.json">>,
                               MetaJson(run_args.test_region,
                                        run_args.pre_code, run_args.post_code))
            /\ run_pc' = "common"
            /\ UNCHANGED run_err
    /\ UNCHANGED <<run_iter, run_patches, run_inflight>>
    /\ RunFrame

\* copytree(app_dir, common_dir, dirs_exist_ok=True)
CopyTree(tree) ==
    PutAll(Put(tree, <<"common">>, DirEntry),
           << << <<"common", "a.rb">>, SutFiles["a.rb"] >>,
              << <<"common", "b.rb">>, SutFiles["b.rb"] >> >>)

\* lines 222-228: 3) the system under test is copied to common/
CopySutMutant ==
    /\ run_pc = "common"
    /\ run_root' = CopyTree(run_root)
    /\ IF ~IsDir(AppDir(run_args.source_dir, run_args.setup_code))
       THEN Raise([type |-> "FileNotFoundError",
                   names |-> <<AppDir(run_args.source_dir,
                                      run_args.setup_code)>>])
       ELSE run_pc' = "loop" /\ UNCHANGED run_err
    /\ UNCHANGED <<run_iter, run_patches, run_inflight>>
    /\ RunFrame

CopySut ==
    /\ run_pc = "common"
    /\ LET app_dir == AppDir(run_args.source_dir, run_args.setup_code)
       IN  IF ~IsDir(app_dir)
           THEN /\ Raise([type |-> "FileNotFoundError", names |-> <<app_dir>>])
                /\ UNCHANGED run_root
           ELSE /\ run_root' = CopyTree(run_root)
                /\ run_pc' = "loop"
                /\ UNCHANGED run_err
    /\ UNCHANGED <<run_iter, run_patches, run_inflight>>
    /\ RunFrame

\* lines 232-235: 4) the loop over the variants takes the next variant and
\* makes its directory; testing_data["mutations"] raises KeyError when the
\* document has no such key; after the last variant the call returns
NextVariant ==
    /\ run_pc = "loop"
    /\ run_iter.f = 0
    /\ LET muts == Mutations(run_args.test_region)
           v == run_iter.v
       IN  IF ~HasMutations(run_args.test_region)
           THEN /\ Raise([type |-> "KeyError", names |-> <<"mutations">>])
                /\ UNCHANGED <<run_root, run_iter>>
           ELSE IF v > Len(muts)
           THEN /\ run_pc' = "done"
                /\ UNCHANGED <<run_root, run_iter, run_err>>
           ELSE /\ run_root' = Put(run_root, <<"var_", muts[v].variant>>,
                                   DirEntry)
                /\ run_iter' = IF muts[v].files = <<>>
                               THEN [v |-> v + 1, f |-> 0]
                               ELSE [v |-> v, f |-> 1]
                /\ UNCHANGED <<run_pc, run_err>>
    /\ UNCHANGED <<run_patches, run_inflight>>
    /\ RunFrame

\* lines 237-244, 178-190: the loop over the files of the variant takes the
\* next file and starts the patch tool on it
ApplyMutation ==
    /\ run_pc = "loop"
    /\ run_iter.f > 0
    /\ LET variant_data == Mutations(run_args.test_region)[run_iter.v]
       IN  run_patches' = Append(run_patches,
                                 [variant |-> variant_data.variant,
                                  file |-> variant_data.files[run_iter.f].file,
                                  patch |-> variant_data.files[run_iter.f].patch])
    /\ run_inflight' = run_inflight + 1
    /\ run_pc' = "patch"
    /\ UNCHANGED <<run_root, run_err, run_iter>>
    /\ RunFrame

AdvanceMutant(iter, items) == [v |-> iter.v + 1, f |-> 0]

\* the loops go on with the next file, or with the next variant after the
\* last file
Advance(iter, items) ==
    IF iter.f < Len(items) THEN [v |-> iter.v, f |-> iter.f + 1]
    ELSE [v |-> iter.v + 1, f |-> 0]

\* lines 190, 191, 245, 246: run() returns when the patch tool has exited; a
\* status other than 0 is raised as ChildProcessError
PatchReturnsMutant ==
    /\ run_pc = "patch"
    /\ run_inflight' = run_inflight - 1
    /\ LET variant_data == Mutations(run_args.test_region)[run_iter.v]
           item == variant_data.files[run_iter.f]
           in_file == SutFiles[item.file]
       IN  /\ run_root' = Put(run_root, <<"var_", variant_data.variant, item.file>>,
                              Patched(in_file, item.patch))
           /\ run_iter' = Advance(run_iter, variant_data.files)
           /\ run_pc' = "loop"
           /\ UNCHANGED run_err
    /\ UNCHANGED run_patches
    /\ RunFrame

PatchReturns ==
    /\ run_pc = "patch"
    /\ run_inflight' = run_inflight - 1
    /\ LET variant_data == Mutations(run_args.test_region)[run_iter.v]
           item == variant_data.files[run_iter.f]
           in_file == SutFiles[item.file]
           err_ == PatchStatus(in_file, item.patch)
       IN  IF err_ # 0
           THEN /\ Raise([type |-> "ChildProcessError",
                          names |-> <<item.file, variant_data.variant>>])
                /\ UNCHANGED <<run_root, run_iter>>
           ELSE /\ run_root' = Put(run_root, <<"var_", variant_data.variant, item.file>>,
                                   Patched(in_file, item.patch))
                /\ run_iter' = Advance(run_iter, variant_data.files)
                /\ run_pc' = "loop"
                /\ UNCHANGED run_err
    /\ UNCHANGED run_patches
    /\ RunFrame

\* the call is over; the next one is made with a fresh tests directory
NextRun ==
    /\ run_pc \in {"done", "error"}
    /\ runs = <<>>
    /\ runs' = <<[backend |-> run_backend, args |-> run_args,
                  root |-> run_root, err |-> run_err]>>
    /\ run_pc' = "idle"
    /\ run_backend' = ""
    /\ run_args' = <<>>
    /\ run_root' = <<>>
    /\ run_err' = <<>>
    /\ run_iter' = [v |-> 1, f |-> 0]
    /\ run_patches' = <<>>
    /\ run_inflight' = 0
    /\ UNCHANGED <<extractVars, lexVars, impl, registryVars, populateVars, lineVars,
                   batchVars, questionVars>>

populate_tests_dir ==
    \/ PythonRun
    \/ RubyRun
    \/ RSpecRun
    \/ WriteSolution
    \/ LoadTestingData
    \/ CopySut
    \/ NextVariant
    \/ ApplyMutation
    \/ PatchReturns
    \/ NextRun

\* no call was made yet
InitRun ==
    /\ run_pc = "idle"
    /\ run_backend = ""
    /\ run_args = <<>>
    /\ run_root = <<>>
    /\ run_err = <<>>
    /\ run_iter = [v |-> 1, f |-> 0]
    /\ run_patches = <<>>
    /\ run_inflight = 0
    /\ runs = <<>>

----------------------------------------------------------------------------
(* generate_fpp.py: generate_many *)

\* the exceptions the generation of one file raises, each with the classes it
\* is an instance of: SyntaxError from lex and parse_blanks, FileNotFoundError
\* and ChildProcessError (both OSError) from RSpecAutograder lines 225 and
\* 246, GenerationError from line 214. GenerationError is imported from
\* lib/consts.py; it is the error of malformed metadata, a kind of its own
\* next to the markup error and the errors of external tools.
Classes_of(e) ==
    CASE e = "SyntaxError" -> {"SyntaxError", "Exception"}
      [] e = "FileNotFoundError" -> {"FileNotFoundError", "OSError", "Exception"}
      [] e = "ChildProcessError" -> {"ChildProcessError", "OSError", "Exception"}
      [] e = "GenerationError" -> {"GenerationError", "Exception"}
      [] OTHER -> {}

Exceptions ==
    {"SyntaxError", "FileNotFoundError", "ChildProcessError", "GenerationError"}

\* the batch: a path of args.source_paths or of args.force_json, and what
\* generate_fpp_question does on it: it returns ("") or raises
PathInputs == [force_json : BOOLEAN, raises : Exceptions \cup {""}]

\* lines 324, 330: the loops take the next path: the paths of source_paths
\* come before those of force_json
TakePath(item) ==
    /\ batch_pc = "loop"
    /\ Len(attempted) < MaxPaths
    /\ attempted # <<>> /\ attempted[Len(attempted)].force_json
         => item.force_json
    /\ attempted' = Append(attempted, item)
    /\ UNCHANGED <<extractVars, lexVars, impl, registryVars, populateVars, lineVars,
                   runVars, questionVars>>

\* the handlers of generate_one, lines 315-318: the clause that catches e
Handler(e) ==
    IF "SyntaxError" \in Classes_of(e) THEN "SyntaxError:"
    ELSE IF "OSError" \in Classes_of(e) THEN "FileNotFoundError:"
    ELSE ""

\* lines 308-314, 325-326: the generation returns; generate_one returns True
GenerateOneSucceeds ==
    \E item \in PathInputs :
        /\ TakePath(item)
        /\ item.raises = ""
        /\ successes' = successes + 1
        /\ UNCHANGED <<batch_pc, failures, reports, uncaught>>

\* lines 315-320, 327-328: the generation raises an exception a handler
\* catches; it is reported and generate_one returns False
GenerateOneFails ==
    \E item \in PathInputs :
        /\ TakePath(item)
        /\ item.raises # ""
        /\ Handler(item.raises) # ""
        /\ failures' = failures + 1
        /\ reports' = Append(reports, [path |-> Len(attempted) + 1,
                                       label |-> Handler(item.raises),
                                       error |-> item.raises])
        /\ UNCHANGED <<batch_pc, successes, uncaught>>

\* the generation raises an exception no handler catches: it leaves
\* generate_one, the loop and generate_many
GenerateOneRaises ==
    \E item \in PathInputs :
        /\ TakePath(item)
        /\ item.raises # ""
        /\ Handler(item.raises) = ""
        /\ batch_pc' = "aborted"
        /\ uncaught' = item.raises
        /\ UNCHANGED <<successes, failures, reports>>

\* lines 336-346: the paths are exhausted; the batch feedback
BatchFeedback ==
    /\ batch_pc = "loop"
    /\ batch_pc' = "done"
    /\ reports' =
         IF successes + failures > 1
         THEN Append(reports,
                [path |-> 0,
                 label |-> IF successes > 0 /\ failures > 0
                           THEN "Batch completed successfully and failed"
                           ELSE IF successes > 0
                           THEN "Batch completed successfully"
                           ELSE "Batch failed on all",
                 error |-> ""])
         ELSE reports
    /\ UNCHANGED <<attempted, successes, failures, uncaught>>
    /\ UNCHANGED <<extractVars, lexVars, impl, registryVars, populateVars, lineVars,
                   runVars, questionVars>>

generate_many ==
    \/ GenerateOneSucceeds
    \/ GenerateOneFails
    \/ GenerateOneRaises
    \/ BatchFeedback

\* lines 322: successes, failures = 0, 0
InitBatch ==
    /\ batch_pc = "loop"
    /\ attempted = <<>>
    /\ successes = 0
    /\ failures = 0
    /\ reports = <<>>
    /\ uncaught = ""

----------------------------------------------------------------------------
(* generate_fpp.py: generate_fpp_question *)

\* A path within the question directory: its directory, the stem of its name
\* and the extension of its name ("" for none).
P(dir, stem, ext) == [dir |-> dir, stem |-> stem, ext |-> ext]

InfoJsonPath == P("", "info", ".json")

\* the info.json found in the question directory of an earlier generation
OldInfo == <<"<info.json of an earlier generation>">>

\* generate_info_json(question_name, autograder), lines 149-165: the default
\* manifest with a fresh uuid4
DefaultInfo(uuid) == <<"<default info.json>", uuid>>
Uuids == {"uuid-1", "uuid-2"}

\* generate_question_html(prompt_code, question_text=..., setup_names=...),
\* lines 99-146
QuestionHtml(prompt_code, question_text) ==
    <<"<pl-question-panel>">> \o question_text
       \o <<"</pl-question-panel><pl-faded-parsons>">> \o prompt_code
       \o <<"</pl-faded-parsons>">>

\* the server.py autograder.generate_server returns
GeneratedServer == <<"<generated server.py>">>

\* the regions of the sources besides answer_code, prompt_code and
\* question_text: none, or regions named after a generated file, or named
\* extra (no extension)
CustomRegionInputs ==
    {<<>>,
     << [name |-> P("", "server", ".py"), text |-> <<"# my server">>] >>,
     << [name |-> P("", "question", ".html"), text |-> <<"<p>mine</p>">>] >>,
     << [name |-> P("", "metadata", ".json"), text |-> <<"{}">>] >>,
     << [name |-> P("tests", "test", ".py"), text |-> <<"# my test">>] >>,
     << [name |-> P("", "extra", ""), text |-> <<"e = 1">>] >>,
     << [name |-> P("", "extra", ""), text |-> <<"e = 1">>],
        [name |-> P("", "server", ".py"), text |-> <<"# my server">>] >>}

\* the arguments of a call and what lex and parse_fpp_regions return for the
\* source: the info.json region (absent: "none"; of whitespace only, so that
\* its text is empty: "empty"; or with text), the other regions in the order
\* of the region map, and the metadata
QuestionInputs ==
    [force_generate_json : BOOLEAN,
     log_details : BOOLEAN,
     metadata : {<<>>, [forceGenerateJson |-> TRUE],
                 [forceGenerateJson |-> FALSE]},
     info_region : {"none", "empty", "text"},
     server_region : {"none", "empty", "text"},
     custom : CustomRegionInputs]

\* the text of the info.json region
InfoRegionText == <<"{\"uuid\": \"mine\"}">>

\* remove_region('info.json'), line 252
JsonRegion(in) == IF in.info_region = "text" THEN InfoRegionText ELSE <<>>

\* the text of the server region
ServerRegionText == <<"# server of the source">>

\* remove_region('server'), line 228
ServerRegion(in) ==
    IF in.server_region = "text" THEN ServerRegionText ELSE <<>>

\* the region map parse_fpp_regions returns for the source, as the list of
\* its items: metadata, answer_code, prompt_code, question_text, setup_code
\* and test, the info.json and server regions when the source has them, and
\* the other regions
Regions(in) ==
    << [name |-> P("", "metadata", ""), text |-> <<"<metadata>">>],
       [name |-> P("", "answer_code", ""), text |-> <<"x = 1">>],
       [name |-> P("", "prompt_code", ""), text |-> <<"p">>],
       [name |-> P("", "question_text", ""), text |-> <<"q">>],
       [name |-> P("", "setup_code", ""), text |-> <<"import m">>],
       [name |-> P("", "test", ""), text |-> JsonTestRegion] >>
    \o (IF in.info_region = "none" THEN <<>>
        ELSE << [name |-> InfoJsonPath, text |-> JsonRegion(in)] >>)
    \o (IF in.server_region = "none" THEN <<>>
        ELSE << [name |-> P("", "server", ""), text |-> ServerRegion(in)] >>)
    \o in.custom

RemoveRegionMutant(regions, key) == regions

\* lines 193-198: remove_region(key): the map without the key
RECURSIVE RemoveRegion(_, _)
RemoveRegion(regions, key) ==
    IF regions = <<>> THEN <<>>
    ELSE (IF Head(regions).name = key THEN <<>> ELSE <<Head(regions)>>)
            \o RemoveRegion(Tail(regions), key)

\* the keys removed at lines 200, 225, 226, 228, 236, 237, 252, 266
RemovedKeys ==
    << P("", "metadata", ""), P("", "setup_code", ""), P("", "answer_code", ""),
       P("", "server", ""), P("", "prompt_code", ""),
       P("", "question_text", ""), InfoJsonPath, P("", "test", "") >>

\* the region map after the remove_region calls of keys
RECURSIVE RemoveAll(_, _)
RemoveAll(regions, keys) ==
    IF keys = <<>> THEN regions
    ELSE RemoveAll(RemoveRegion(regions, Head(keys)), Tail(keys))

\* regions at line 279
Remaining(in) == RemoveAll(Regions(in), RemovedKeys)

\* line 202: metadata.get('forceGenerateJson', force_generate_json)
ForceGenerateJson(in) ==
    IF "forceGenerateJson" \in DOMAIN in.metadata
    THEN in.metadata.forceGenerateJson
    ELSE in.force_generate_json

\* what a step of the call leaves alone
QuestionFrame ==
    /\ UNCHANGED q_in
    /\ UNCHANGED <<extractVars, lexVars, impl, registryVars, populateVars, lineVars,
                   runVars, batchVars>>

\* write_to(question_dir, path, content) by the step named by
WriteFile(by, path, content) ==
    /\ q_dir' = Put(q_dir, path, content)
    /\ q_writes' = Append(q_writes, [path |-> path, content |-> content,
                                     by |-> by])

\* lines 177-203: the source is tokenized and its regions extracted
ExtractRegions ==
    \E in \in QuestionInputs :
        /\ q_pc = "start"
        /\ q_in' = in
        /\ q_pc' = "dirs"
        /\ UNCHANGED <<q_dir, q_writes, q_warnings>>
        /\ UNCHANGED <<extractVars, lexVars, impl, registryVars, populateVars, lineVars,
                       runVars, batchVars>>

\* the tests directory of the question directory
TestsDir == P("tests", "", "")

\* lines 188-191: lex or parse_fpp_regions raises SyntaxError
ExtractFailsAfterDirs ==
    /\ q_pc = "start"
    /\ q_pc' = "error"
    /\ q_dir' = Put(q_dir, TestsDir, DirEntry)
    /\ UNCHANGED <<q_writes, q_warnings>>
    /\ QuestionFrame

ExtractFails ==
    /\ q_pc = "start"
    /\ q_pc' = "error"
    /\ UNCHANGED <<q_dir, q_writes, q_warnings>>
    /\ QuestionFrame

\* lines 214-220: the directories are made and the source is copied
CopySource ==
    /\ q_pc = "dirs"
    /\ q_dir' = Put(Put(q_dir, TestsDir, DirEntry),
                    P("", "source", ".py"), <<"<the source file>">>)
    /\ q_writes' = Append(q_writes, [path |-> P("", "source", ".py"),
                                     content |-> <<"<the source file>">>,
                                     by |-> "source"])
    /\ q_pc' = "question"
    /\ UNCHANGED q_warnings
    /\ QuestionFrame

\* lines 225-249: question.html and solution
WriteQuestion ==
    /\ q_pc = "question"
    /\ q_dir' = PutAll(q_dir,
          << <<P("", "question", ".html"), QuestionHtml(<<"p">>, <<"q">>)>>,
             <<P("", "solution", ""), <<"x = 1">> >> >>)
    /\ q_writes' = q_writes \o
          << [path |-> P("", "question", ".html"),
              content |-> QuestionHtml(<<"p">>, <<"q">>), by |-> "question"],
             [path |-> P("", "solution", ""), content |-> <<"x = 1">>,
              by |-> "solution"] >>
    /\ q_pc' = "info"
    /\ UNCHANGED q_warnings
    /\ QuestionFrame

\* the warning of lines 258, 259
OverwritingWarning(json_region) ==
    [msg |-> "  - Overwriting", path |-> InfoJsonPath,
     tail |-> IF json_region # <<>> THEN "using \"info.json\" region..."
              ELSE "..."]

\* lines 251-259: info.json is written when generation is forced, when the
\* source has an info.json region with text, or when there is no info.json
WriteInfoJsonMutant ==
    /\ q_pc = "info"
    /\ \E uuid \in Uuids :
          WriteFile("info", InfoJsonPath,
                    IF JsonRegion(q_in) # <<>> THEN JsonRegion(q_in)
                    ELSE DefaultInfo(uuid))
    /\ UNCHANGED q_warnings
    /\ q_pc' = "server"
    /\ QuestionFrame

WriteInfoJson ==
    /\ q_pc = "info"
    /\ LET json_region == JsonRegion(q_in)
           missing_json == InfoJsonPath \notin DOMAIN q_dir
       IN  IF ForceGenerateJson(q_in) \/ json_region # <<>> \/ missing_json
           THEN /\ \E uuid \in Uuids :
                     WriteFile("info", InfoJsonPath,
                               IF json_region # <<>> THEN json_region
                               ELSE DefaultInfo(uuid))
                /\ q_warnings' =
                     IF ~missing_json
                     THEN Append(q_warnings, OverwritingWarning(json_region))
                     ELSE q_warnings
           ELSE UNCHANGED <<q_dir, q_writes, q_warnings>>
    /\ q_pc' = "server"
    /\ QuestionFrame

\* lines 228-234, 261: server.py is the server region, or the generated
\* server.py when the source has none with text
WriteServer ==
    /\ q_pc = "server"
    /\ WriteFile("server", P("", "server", ".py"),
                 IF ServerRegion(q_in) # <<>> THEN ServerRegion(q_in)
                 ELSE GeneratedServer)
    /\ q_pc' = "tests"
    /\ UNCHANGED q_warnings
    /\ QuestionFrame

\* the files of the tests directory as paths of the question directory
RECURSIVE TestsWrites(_)
TestsWrites(ws) ==
    IF ws = <<>> THEN <<>>
    ELSE LET n == Head(ws)[1]
             path == CASE n = "test.py" -> P("tests", "test", ".py")
                       [] n = "ans.py" -> P("tests", "ans", ".py")
                       [] n = "setup_code.py" -> P("tests", "setup_code", ".py")
                       [] n = "test_source.json" ->
                            P("tests", "test_source", ".json")
         IN  << [path |-> path, content |-> Head(ws)[2], by |-> "tests"] >>
                \o TestsWrites(Tail(ws))

\* the write_to calls ws, applied
RECURSIVE ApplyWrites(_, _)
ApplyWrites(tree, ws) ==
    IF ws = <<>> THEN tree
    ELSE ApplyWrites(Put(tree, Head(ws).path, Head(ws).content), Tail(ws))

\* lines 266-274: autograder.populate_tests_dir(test_dir, answer_code,
\* setup_code, test_region, log_details=log_details), the autograder being
\* the PythonAutograder of src/lib/autograde.py
PopulateTests ==
    /\ q_pc = "tests"
    /\ LET ws == TestsWrites(PopulateWrites("lib",
                    [answer_code |-> <<"x = 1">>, setup_code |-> <<"import m">>,
                     test_region |-> JsonTestRegion, pre_code |-> <<>>,
                     post_code |-> <<>>, log_details |-> q_in.log_details]))
       IN  /\ q_dir' = ApplyWrites(q_dir, ws)
           /\ q_writes' = q_writes \o ws
    /\ q_pc' = "metadata"
    /\ UNCHANGED q_warnings
    /\ QuestionFrame

\* lines 276, 277: metadata.json, when there is metadata
WriteMetadata ==
    /\ q_pc = "metadata"
    /\ IF q_in.metadata # <<>>
       THEN WriteFile("metadata", P("", "metadata", ".json"),
                      <<"<json of the metadata>">>)
       ELSE UNCHANGED <<q_dir, q_writes>>
    /\ q_pc' = "regions"
    /\ UNCHANGED q_warnings
    /\ QuestionFrame

\* lines 287-289: a region name without extension gets .py
RawPath(name) == IF name.ext = "" THEN P(name.dir, name.stem, ".py") ELSE name

\* lines 282-297: the write_to calls of the remaining regions, in the order
\* of the region map; a region without a name is skipped
RECURSIVE RegionWrites(_)
RegionWrites(regions) ==
    IF regions = <<>> THEN <<>>
    ELSE (IF Head(regions).name = P("", "", "") THEN <<>>
          ELSE << [path |-> RawPath(Head(regions).name),
                   content |-> Head(regions).text, by |-> "regions"] >>)
            \o RegionWrites(Tail(regions))

\* the writes of ws to paths that are not in tree
RECURSIVE OnlyNew(_, _)
OnlyNew(tree, ws) ==
    IF ws = <<>> THEN <<>>
    ELSE (IF Head(ws).path \in DOMAIN tree THEN <<>> ELSE <<Head(ws)>>)
            \o OnlyNew(tree, Tail(ws))

WriteRegionsMutant ==
    /\ q_pc = "regions"
    /\ q_dir' = ApplyWrites(q_dir, OnlyNew(q_dir, RegionWrites(Remaining(q_in))))
    /\ q_writes' = q_writes \o RegionWrites(Remaining(q_in))
    /\ UNCHANGED q_warnings
    /\ q_pc' = "done"
    /\ QuestionFrame

\* lines 279-299: the remaining regions are written as files
WriteRegions ==
    /\ q_pc = "regions"
    /\ LET ws == RegionWrites(Remaining(q_in))
       IN  /\ q_dir' = ApplyWrites(q_dir, ws)
           /\ q_writes' = q_writes \o ws
           /\ q_warnings' =
                IF ws # <<>>
                THEN Append(q_warnings,
                            [msg |-> "- Writing unrecognized regions:",
                             path |-> P("", "", ""), tail |-> ""])
                ELSE q_warnings
    /\ q_pc' = "done"
    /\ QuestionFrame

generate_fpp_question ==
    \/ ExtractRegions
    \/ ExtractFails
    \/ CopySource
    \/ WriteQuestion
    \/ WriteInfoJson
    \/ WriteServer
    \/ PopulateTests
    \/ WriteMetadata
    \/ WriteRegions

\* before the call: the question directory is new, or is that of an earlier
\* generation and holds an info.json
InitQuestion ==
    /\ q_pc = "start"
    /\ q_in = <<>>
    /\ q_dir \in {<<>>, [p \in {InfoJsonPath} |-> OldInfo]}
    /\ q_writes = <<>>
    /\ q_warnings = <<>>

----------------------------------------------------------------------------
(* pl-faded-parsons.py: Line *)

\* the pieces the raw lines of the model are made of: code, a placeholder
\* marker, the special comments "#blank a", "#2given" and "#distractor", and
\* a space
Pieces ==
    {<<"x">>, BLANK_SUBSTITUTE, <<" ">>,
     <<"#", "b", "l", "a", "n", "k", " ", "a">>,
     <<"#", "2", "g", "i", "v", "e", "n">>,
     <<"#", "d", "i", "s", "t", "r", "a", "c", "t", "o", "r">>}

\* the raw lines from_fpp_str is called on
RawLines ==
    {Join(ps) : ps \in UNION {[1..n -> Pieces] : n \in 0..MaxPieces}}

\* the dicts from_pl_data is called on
PlDataInputs ==
    [indent : {0, 4},
     codeSnippets : {<<>>, <<<<"x">>>>, <<<<"x">>, <<"y">>>>},
     blankValues : {<<>>, <<<<"a">>>>, <<<<"a">>, <<"b">>>>}]

\* text.split(sep)
RECURSIVE SplitFrom(_, _, _)
SplitFrom(text, sep, cur) ==
    IF text = <<>> THEN <<cur>>
    ELSE IF StartsWith(text, sep)
    THEN <<cur>> \o SplitFrom(SubSeq(text, Len(sep) + 1, Len(text)), sep, <<>>)
    ELSE SplitFrom(Tail(text), sep, Append(cur, Head(text)))

Split(text, sep) == SplitFrom(text, sep, <<>>)

\* the number of characters of chars at the start of text
RECURSIVE RunLen(_, _)
RunLen(text, chars) ==
    IF text # <<>> /\ Head(text) \in chars
    THEN 1 + RunLen(Tail(text), chars) ELSE 0

\* the characters the raw lines are written in
LineChars == UNION {{p[i] : i \in DOMAIN p} : p \in Pieces}

\* the length of the match of a pattern at the start of text, 0 for none:
\* BLANK is #blank [^#]*, GIVEN is #(\d+)given, DISTRACTOR is #distractor
MatchLen(pattern, text) ==
    IF pattern = "BLANK"
    THEN IF StartsWith(text, <<"#", "b", "l", "a", "n", "k", " ">>)
         THEN 7 + RunLen(SubSeq(text, 8, Len(text)), LineChars \ {"#"})
         ELSE 0
    ELSE IF pattern = "GIVEN"
    THEN LET n == IF StartsWith(text, <<"#">>)
                  THEN RunLen(Tail(text), Digits) ELSE 0
         IN  IF n > 0 /\ StartsWith(SubSeq(text, n + 2, Len(text)),
                                    <<"g", "i", "v", "e", "n">>)
             THEN n + 6 ELSE 0
    ELSE IF StartsWith(text, <<"#", "d", "i", "s", "t", "r", "a", "c", "t",
                               "o", "r">>)
         THEN 11 ELSE 0

\* the matches of a pattern in text, left to right, and text without them:
\* re.findall(pattern, text) and re.sub(pattern, '', text)
RECURSIVE ScanFrom(_, _, _, _)
ScanFrom(pattern, text, kept, matches) ==
    IF text = <<>> THEN [kept |-> kept, matches |-> matches]
    ELSE LET n == MatchLen(pattern, text)
         IN  IF n > 0
             THEN ScanFrom(pattern, SubSeq(text, n + 1, Len(text)), kept,
                           Append(matches, SubSeq(text, 1, n)))
             ELSE ScanFrom(pattern, Tail(text), Append(kept, Head(text)),
                           matches)

Scan(pattern, text) == ScanFrom(pattern, text, <<>>, <<>>)

\* int(digits)
RECURSIVE ToInt(_)
ToInt(digits) ==
    IF digits = <<>> THEN 0
    ELSE LET d == digits[Len(digits)]
             v == CHOOSE n \in 0..9 :
                     <<"0", "1", "2", "3", "4", "5", "6", "7", "8", "9">>[n + 1]
                       = d
         IN  10 * ToInt(SubSeq(digits, 1, Len(digits) - 1)) + v

\* Line(indent, codeSnippets, blankValues) with its __post_init__
NewLine(indent, codeSnippets, blankValues) ==
    IF Len(codeSnippets) # Len(blankValues) + 1
    THEN [raised |-> "ValueError"]
    ELSE [indent |-> indent, codeSnippets |-> codeSnippets,
          blankValues |-> blankValues]

\* remove_special_comment: snippets with the matches taken out of the last
\* one, which is right-stripped when there was a match
RemoveSpecialComment(snippets, pattern) ==
    LET n == Len(snippets)
        found == Scan(pattern, snippets[n])
    IN  IF found.matches = <<>> THEN snippets
        ELSE [snippets EXCEPT ![n] = RStrip(found.kept)]

\* val.replace('#blank', '').strip() of a match of BLANK, which holds "#"
\* at its start only
BlankDefault(val) == Strip(SubSeq(val, 7, Len(val)))

\* what a call returns, or the exception that ends it
Returned(kind, line) ==
    IF "raised" \in DOMAIN line THEN line ELSE [kind |-> kind, line |-> line]

\* Line.from_fpp_str(raw_line)
FromFppStr(raw_line) ==
    LET split == Split(Strip(raw_line), BLANK_SUBSTITUTE)
        n == Len(split)
        blank_defaults == Scan("BLANK", split[n]).matches
        s1 == RemoveSpecialComment(split, "BLANK")
        blanks == [i \in 1..(n - 1) |->
                     IF i <= Len(blank_defaults)
                     THEN BlankDefault(blank_defaults[i]) ELSE <<>>]
        given == Scan("GIVEN", s1[n]).matches
        s2 == RemoveSpecialComment(s1, "GIVEN")
        s3 == RemoveSpecialComment(s2, "DISTRACTOR")
    IN  IF Len(blank_defaults) > n - 1
        THEN [raised |-> "IndexError"]
        ELSE IF given # <<>>
        THEN Returned("given",
                      NewLine(ToInt(SubSeq(given[1], 2, Len(given[1]) - 5)),
                              s2, blanks))
        ELSE IF Scan("DISTRACTOR", s2[n]).matches # <<>>
        THEN Returned("distractor", NewLine(0, s3, blanks))
        ELSE Returned("starter", NewLine(0, s3, blanks))

\* a call of Line.from_fpp_str; the calls share no state, so a behaviour
\* makes one
from_fpp_str(raw_line) ==
    /\ line_call = <<>>
    /\ line_call' = [op |-> "from_fpp_str", arg |-> raw_line]
    /\ line_result' = FromFppStr(raw_line)
    /\ UNCHANGED <<extractVars, lexVars, impl, registryVars, populateVars,
                   generationVars>>

\* a call of Line.from_pl_data
from_pl_data(line) ==
    /\ line_call = <<>>
    /\ line_call' = [op |-> "from_pl_data", arg |-> line]
    /\ line_result' = Returned("", NewLine(line.indent, line.codeSnippets,
                                           line.blankValues))
    /\ UNCHANGED <<extractVars, lexVars, impl, registryVars, populateVars,
                   generationVars>>

line_calls ==
    \/ \E raw_line \in RawLines : from_fpp_str(raw_line)
    \/ \E line \in PlDataInputs : from_pl_data(line)

InitLine ==
    /\ line_call = <<>>
    /\ line_result = <<>>

----------------------------------------------------------------------------
(* The specifications *)

\* the parts of the state a specification leaves alone
IdleExtract ==
    /\ metadata = <<>>
    /\ data = <<>>
    /\ r_texts = <<>>
    /\ docstring_state = Accepting
    /\ pc = "idle"
    /\ out = <<>>
    /\ err = <<>>

IdleLex ==
    /\ lex_open = <<>>
    /\ lex_tokens = <<>>
    /\ lex_pc = "idle"
    /\ lex_item = <<>>

IdleRegistry ==
    /\ autograders = <<>>
    /\ lookup = <<>>
    /\ fragment = <<>>

IdlePopulate ==
    /\ files = <<>>
    /\ call = <<>>
    /\ log = <<>>

IdleLine == InitLine

IdleRun == InitRun

IdleBatch == InitBatch

IdleQuestion ==
    /\ q_pc = "start"
    /\ q_in = <<>>
    /\ q_dir = <<>>
    /\ q_writes = <<>>
    /\ q_warnings = <<>>

IdleGeneration == IdleRun /\ IdleBatch /\ IdleQuestion /\ IdleLine

\* region extraction: parse_fpp_regions on every token stream of the inputs
Init ==
    /\ InitExtract /\ IdleLex /\ impl = "fppgen" /\ IdleRegistry /\ IdlePopulate
    /\ IdleGeneration

Next == parse_fpp_regions

Spec == Init /\ [][Next]_vars

\* the tokenizer's region bookkeeping on every run of source items
LexInit ==
    /\ IdleExtract /\ InitLex /\ impl = "fppgen" /\ IdleRegistry /\ IdlePopulate
    /\ IdleGeneration

LexNext == lex

SpecLex == LexInit /\ [][LexNext]_vars

\* the registry under any registrations and lookups, in either copy
RegistryInit ==
    IdleExtract /\ IdleLex /\ InitRegistry /\ IdlePopulate /\ IdleGeneration

RegistryNext == registry

SpecRegistry == RegistryInit /\ [][RegistryNext]_vars

\* PythonAutograder.populate_tests_dir on every input, in either copy
PopulateInit ==
    IdleExtract /\ IdleLex /\ IdleRegistry /\ InitPopulate /\ IdleGeneration

PopulateNext == populate

SpecPopulate == PopulateInit /\ [][PopulateNext]_vars

\* populate_tests_dir of the three autograders of src/fppgen/lib, two calls
\* one after the other, each into a fresh tests directory
RunInit ==
    /\ IdleExtract /\ IdleLex /\ impl = "fppgen" /\ IdleRegistry /\ IdlePopulate
    /\ InitRun /\ IdleBatch /\ IdleQuestion /\ IdleLine

RunNext == populate_tests_dir

SpecRun == RunInit /\ [][RunNext]_vars

\* generate_many on every batch of paths
BatchInit ==
    /\ IdleExtract /\ IdleLex /\ impl = "fppgen" /\ IdleRegistry /\ IdlePopulate
    /\ IdleRun /\ InitBatch /\ IdleQuestion /\ IdleLine

BatchNext == generate_many

SpecBatch == BatchInit /\ [][BatchNext]_vars

\* generate_fpp_question on every source of the inputs, with the
\* PythonAutograder of src/lib
QuestionInit ==
    /\ IdleExtract /\ IdleLex /\ impl = "lib" /\ IdleRegistry /\ IdlePopulate
    /\ IdleRun /\ IdleBatch /\ InitQuestion /\ IdleLine

QuestionNext == generate_fpp_question

SpecQuestion == QuestionInit /\ [][QuestionNext]_vars

\* Line.from_fpp_str on every raw line of the inputs, Line.from_pl_data on
\* every dict
LineInit ==
    /\ IdleExtract /\ IdleLex /\ impl = "fppgen" /\ IdleRegistry /\ IdlePopulate
    /\ IdleRun /\ IdleBatch /\ IdleQuestion /\ InitLine

LineNext == line_calls

SpecLine == LineInit /\ [][LineNext]_vars

----------------------------------------------------------------------------
(* Properties of parse_fpp_regions, checked under Spec *)

\* the step takes a token: tkn is the token, taken in the step's second state
Took == Len(data') = Len(data) + 1
LastToken == data[Len(data)]
Untagged(t, type) == t.region = "" /\ t.type = type /\ t.text # <<>>

answer == r_texts["answer_code"]
prompt == r_texts["prompt_code"]
question == Get(r_texts, "question_text")

\* an untagged token with text was taken before the last one
SeenUntagged(tokens) ==
    \E i \in 1..Len(tokens) : tokens[i].region = "" /\ tokens[i].text # <<>>

\* text[3:-3] of a docstring, written out for the docstrings of the inputs
InnerText(text) == IF text = DocText THEN <<"?", "Q", "?">> ELSE <<>>

\* the docstring token becomes (part of) question_text and reaches no code buffer
TakenAsQuestion(t) ==
    /\ answer' = answer
    /\ prompt' = prompt
    /\ Join(question') =
         Join(question) \o (IF question = <<>> THEN <<>> ELSE <<"\n">>)
                        \o InnerText(t.text)

\* the token is appended unchanged to both code buffers
AppendedToBoth(t) ==
    /\ answer' = Append(answer, t.text)
    /\ prompt' = Append(prompt, t.text)
    /\ question' = question

SpecialComments == {GivenComment, BlankComment}

\* C2: every untagged comment is appended to exactly one of the two buffers:
\* to prompt_code only when it has the special shape (#blank..., #<digits>given),
\* to answer_code only otherwise; "#?n?" goes to answer_code, "#3given" to
\* prompt_code.
C2_CommentRouting ==
    [][(Took /\ Untagged(LastToken', "COMMENT")) =>
          LET t == LastToken'
          IN  /\ t.text \in SpecialComments =>
                   prompt' = Append(prompt, t.text) /\ answer' = answer
              /\ t.text \notin SpecialComments =>
                   answer' = Append(answer, t.text) /\ prompt' = prompt
              /\ \A k \in DOMAIN r_texts' \ {"answer_code", "prompt_code"} :
                   k \in DOMAIN r_texts /\ r_texts'[k] = r_texts[k]]_vars

\* "#?n?" was routed to answer_code and "#3given" to prompt_code
C2_Witness ==
    /\ Len(data) = 2
    /\ Untagged(data[1], "COMMENT") /\ data[1].text = NoteComment
    /\ Untagged(data[2], "COMMENT") /\ data[2].text = GivenComment
    /\ answer = <<NoteComment>>
    /\ prompt = <<GivenComment>>

\* text with every blank of delimiter d replaced, left to right, by its
\* captured text (keep) or by the placeholder marker
RECURSIVE Substituted(_, _, _)
Substituted(text, d, keep) ==
    IF text = <<>> THEN <<>>
    ELSE LET closes == {j \in 2..Len(text) :
                          /\ text[j] = d
                          /\ \A k \in 2..(j - 1) : text[k] \notin {d, "\n"}}
         IN  IF Head(text) = d /\ closes # {}
             THEN LET j == CHOOSE x \in closes : TRUE
                  IN  (IF keep THEN SubSeq(text, 2, j - 1) ELSE BLANK_SUBSTITUTE)
                      \o Substituted(SubSeq(text, j + 1, Len(text)), d, keep)
             ELSE <<Head(text)>> \o Substituted(Tail(text), d, keep)

\* the position of the first blank of delimiter d in text that captures
\* nothing (two delimiters in a row that open and close a blank), or 0
RECURSIVE FirstEmptyAt(_, _, _)
FirstEmptyAt(text, d, pos) ==
    IF pos >= Len(text) THEN 0
    ELSE LET closes == {j \in (pos + 1)..Len(text) :
                          /\ text[j] = d
                          /\ \A k \in (pos + 1)..(j - 1) :
                               text[k] \notin {d, "\n"}}
         IN  IF text[pos] = d /\ closes # {}
             THEN LET j == CHOOSE x \in closes : TRUE
                  IN  IF j = pos + 1 THEN pos
                      ELSE FirstEmptyAt(text, d, j + 1)
             ELSE FirstEmptyAt(text, d, pos + 1)

\* the delimiter of the blank pattern in force
Delim == IF "blankDelimiter" \in DOMAIN metadata
         THEN metadata["blankDelimiter"] ELSE "?"

\* the part of text before its first empty blank (all of it when it has none)
BeforeEmptyBlank(text, d) ==
    LET e == FirstEmptyAt(text, d, 1)
    IN  IF e = 0 THEN text ELSE SubSeq(text, 1, e - 1)

\* C3: for an untagged Unmatched token the fragments come in pairs, (captured
\* text, '!BLANK') for a blank and (span, span) for the text between blanks,
\* so that answer_code receives the token text with each blank replaced by its
\* captured text and prompt_code the text with each blank replaced by '!BLANK',
\* in source order (up to the first blank that captures nothing, where
\* parse_blanks raises).
C3_BlankSubstitution ==
    [][(Took /\ Untagged(LastToken', "UNMATCHED")) =>
          LET t == LastToken'
              n == Len(answer') - Len(answer)
              body == BeforeEmptyBlank(t.text, Delim)
          IN  /\ Len(prompt') - Len(prompt) = n
              /\ \A i \in 1..n :
                   LET a == answer'[Len(answer) + i]
                       p == prompt'[Len(prompt) + i]
                   IN  (a = p) \/ (p = BLANK_SUBSTITUTE /\ a # <<>>)
              /\ SubSeq(answer', 1, Len(answer)) = answer
              /\ SubSeq(prompt', 1, Len(prompt)) = prompt
              /\ Join(answer') = Join(answer) \o Substituted(body, Delim, TRUE)
              /\ Join(prompt') = Join(prompt) \o Substituted(body, Delim, FALSE)
              /\ (pc' = "loop") = (body = t.text)]_vars

\* "?x + 1?" gave the answer fragment "x + 1" and the prompt fragment '!BLANK',
\* and "a ?b? \n\nc?d" its spans and blank in order
C3_Witness ==
    /\ Len(data) = 2
    /\ pc = "loop"
    /\ Untagged(data[1], "UNMATCHED") /\ data[1].text = BlankCode
    /\ Untagged(data[2], "UNMATCHED") /\ data[2].text = MixedCode
    /\ answer[1] = <<"x", " ", "+", " ", "1">>
    /\ prompt[1] = BLANK_SUBSTITUTE
    /\ Join(answer) = <<"x", " ", "+", " ", "1">>
                      \o <<"a", " ", "b", " ", "\n", "\n", "c", "?", "d">>
    /\ Len(answer) = 6

\* C4: when a blankDelimiter override matches inside an untagged Unmatched
\* token and captures nothing, extraction fails with a SyntaxError that names
\* the line of the empty blank, and no region map is returned: the failure is
\* final.
C4_EmptyCaptureRaises ==
    [][/\ (Took /\ Untagged(LastToken', "UNMATCHED")
                /\ "blankDelimiter" \in DOMAIN metadata
                /\ FirstEmptyAt(LastToken'.text, Delim, 1) # 0) =>
            LET t == LastToken'
                e == FirstEmptyAt(t.text, Delim, 1)
            IN  /\ pc' = "error"
                /\ err' = [type |-> "SyntaxError",
                           line |-> t.lineno
                                    + CountNewlines(SubSeq(t.text, 1, e - 1))]
                /\ out' = <<>>
       /\ pc = "error" => (pc' = "error" /\ out' = <<>>)]_vars

\* "$y$\n$$" under the override "$", as a second token starting on line 3:
\* the error names line 4
C4_Witness ==
    /\ pc = "error"
    /\ "blankDelimiter" \in DOMAIN metadata
    /\ Len(data) = 2
    /\ data[1].text = MixedCode
    /\ data[2].text = CustomBlankCode /\ data[2].region = ""
    /\ data[2].lineno = 3
    /\ err = [type |-> "SyntaxError", line |-> 4]
    /\ out = <<>>

\* C6: a token tagged with a region is appended verbatim to that region's
\* buffer and to no other: every other buffer (answer_code and prompt_code
\* among them) is unchanged, whatever the token's kind, and its text is
\* neither split at blanks nor routed as a comment. (The one thing that may
\* precede it in its buffer is the newline that joins a docstring to a
\* question_text region.)
C6_RegionVerbatim ==
    [][(Took /\ LastToken'.region # "" /\ LastToken'.text # <<>>) =>
          LET t == LastToken'
              sep == IF t.region = "question_text"
                        /\ docstring_state = FollowWithNewline
                     THEN <<<<"\n">>>> ELSE <<>>
          IN  /\ r_texts'[t.region] = Get(r_texts, t.region) \o sep \o <<t.text>>
              /\ DOMAIN r_texts' = DOMAIN r_texts \cup {t.region}
              /\ \A k \in DOMAIN r_texts \ {t.region} : r_texts'[k] = r_texts[k]
              /\ pc' = pc]_vars

\* tagged tokens of each kind were taken: code with a blank, a special comment,
\* a docstring; the code buffers are empty and each text is in its region as is
C6_Witness ==
    /\ Len(data) = 3
    /\ data[1].type = "UNMATCHED" /\ data[1].region = "question_text"
    /\ data[1].text = RegionText
    /\ data[2].type = "COMMENT" /\ data[2].region = "test"
    /\ data[3].type = "DOCSTRING" /\ data[3].region = "test"
    /\ answer = <<>> /\ prompt = <<>>
    /\ r_texts["question_text"] = <<RegionText>>
    /\ r_texts["test"] = <<GivenComment, DocText>>

\* the shapes C7 excludes, on a text whose lines are separated by "\n"
HasEmptyLine(s) ==
    \E i \in 1..Len(s) :
        s[i] = "\n" /\ (i = 1 \/ i = Len(s) \/ s[i + 1] = "\n")
LineEndsWithSpace(s) ==
    \E i \in 1..Len(s) :
        /\ s[i] \in Whitespace \ {"\n"}
        /\ (i = Len(s) \/ s[i + 1] = "\n")
EdgeWhitespace(s) ==
    s # <<>> /\ (s[1] \in Whitespace \/ s[Len(s)] \in Whitespace)

\* C7: in every returned region map, prompt_code has no empty line, no line of
\* any region text ends with whitespace, and no region text begins or ends
\* with whitespace.
C7_FinalizedTexts ==
    pc = "done" =>
        /\ DOMAIN out = DOMAIN r_texts \cup {"metadata"}
        /\ ~HasEmptyLine(out["prompt_code"])
        /\ \A k \in DOMAIN r_texts :
              /\ ~LineEndsWithSpace(out[k])
              /\ ~EdgeWhitespace(out[k])
              /\ \A i \in 1..Len(out[k]) : out[k][i] # "\r"

\* a map was returned whose buffers had an empty line, a line ending in a
\* space and whitespace at the edges
C7_Witness ==
    /\ pc = "done"
    /\ HasEmptyLine(Join(prompt))
    /\ LineEndsWithSpace(Join(prompt))
    /\ HasEmptyLine(out["answer_code"])
    /\ "question_text" \in DOMAIN r_texts
    /\ EdgeWhitespace(Join(r_texts["question_text"]))
    /\ out["question_text"] # <<>>

----------------------------------------------------------------------------
(* Properties of the tokenizer's region bookkeeping, checked under SpecLex *)

\* the step consumed a source item (the end of the source included)
Lexed == lex_item' # lex_item \/ lex_tokens' # lex_tokens \/ lex_pc' # lex_pc

\* C5: at most one region is open at any token; a region delimiter or an
\* import region that would open a second region while one is open raises
\* the markup error, and so does the end of the source with a region open.
C5_OneRegionOpen ==
    [][Lexed =>
          /\ Len(lex_open) <= 1 /\ Len(lex_open') <= 1
          /\ (lex_open # <<>> /\ lex_item'.kind = "region"
                /\ lex_item'.name # CurrentRegion(lex_open))
               => (lex_pc' = "error" /\ lex_tokens' = lex_tokens)
          /\ (lex_open # <<>> /\ lex_item'.kind = "import")
               => (lex_pc' = "error" /\ lex_tokens' = lex_tokens)
          /\ (lex_open # <<>> /\ lex_item'.kind = "eof") => lex_pc' = "error"
          /\ lex_pc' = "done" => lex_open' = <<>>
          /\ lex_pc = "error" => lex_pc' = "error"]_vars

\* a region was opened and a token of it produced, and the delimiter of
\* another region then raised the error
C5_Witness ==
    /\ lex_pc = "error"
    /\ lex_open = <<"test">>
    /\ lex_item = [kind |-> "region", name |-> "question_text"]
    /\ Len(lex_tokens) = 2
    /\ lex_tokens[2].region = "test"

----------------------------------------------------------------------------
(* Properties of the registry, checked under SpecRegistry *)

\* C8: after any registrations, every registered extension is in the registry
\* with and without its leading dot, both keys with the same class, so that the
\* lookups of an extension with and without the dot give the same class.
C8_BothKeys ==
    /\ \A k \in DOMAIN autograders :
          k # <<>> =>
             /\ with_dot(k) \in DOMAIN autograders
             /\ without_dot(k) \in DOMAIN autograders
             /\ autograders[with_dot(k)] = autograders[without_dot(k)]
    /\ \A ext \in RegisterInputs :
          DictGet(autograders, with_dot(ext), "PythonAutograder")
            = DictGet(autograders, without_dot(ext), "PythonAutograder")

\* the same, of the copy src/fppgen/lib/autograde.py alone
C8_BothKeysFppgen == impl = "fppgen" => C8_BothKeys

\* the step is a lookup
LookedUp == lookup' # lookup

\* C9: the lookup of an extension that is not in the registry returns the
\* Python autograder, leaves the registry as it is, and emits a warning that
\* names the missing extension.
C9_FallbackWarns ==
    [][(LookedUp /\ lookup'.extension \notin DOMAIN autograders) =>
          /\ lookup'.cls = "PythonAutograder"
          /\ autograders' = autograders
          /\ \E i \in 1..Len(lookup'.warnings) :
                lookup'.warnings[i].names = <<lookup'.extension>>]_vars

\* the same without the warning: the fallback itself
C9_FallbackOnly ==
    [][(LookedUp /\ lookup'.extension \notin DOMAIN autograders) =>
          /\ lookup'.cls = "PythonAutograder"
          /\ autograders' = autograders]_vars

----------------------------------------------------------------------------
(* Properties of PythonAutograder.populate_tests_dir, checked under          *)
(* SpecPopulate                                                              *)

\* the names one call wrote, and the content it wrote under a name
WrittenNames == {call.writes[i][1] : i \in 1..Len(call.writes)}
WrittenAs(name) ==
    {call.writes[i][2] : i \in {j \in 1..Len(call.writes) :
                                   call.writes[j][1] = name}}

\* C10 as stated: a call emits exactly three artifacts: test.py, ans.py with
\* the content pre_code + answer_code + post_code, and setup_code.py with
\* setup_code.
C10_AsStated ==
    call # <<>> =>
        /\ WrittenNames = {"test.py", "ans.py", "setup_code.py"}
        /\ Len(call.writes) = 3
        /\ WrittenAs("ans.py") = {call.args.pre_code \o call.args.answer_code
                                                     \o call.args.post_code}
        /\ WrittenAs("setup_code.py") = {call.args.setup_code}

\* C10, amended: a call always emits test.py, ans.py and setup_code.py, once
\* each, setup_code.py with setup_code; ans.py holds pre_code, answer_code and
\* post_code joined by newlines (in src/lib: answer_code alone); the only other
\* artifact is test_source.json, the test region, emitted exactly when the
\* test region is a JSON test specification that compiled and log_details is
\* set.
C10_PlainArtifacts ==
    call # <<>> =>
        LET a == call.args
            compiled == a.test_region = JsonTestRegion
            extra == IF compiled /\ a.log_details
                     THEN {"test_source.json"} ELSE {}
        IN  /\ WrittenNames = {"test.py", "ans.py", "setup_code.py"} \cup extra
            /\ Len(call.writes) = 3 + Cardinality(extra)
            /\ WrittenAs("ans.py") =
                 {IF impl = "fppgen"
                  THEN a.pre_code \o <<"\n">> \o a.answer_code
                                  \o <<"\n">> \o a.post_code
                  ELSE a.answer_code}
            /\ WrittenAs("setup_code.py") = {a.setup_code}
            /\ extra # {} => WrittenAs("test_source.json") = {a.test_region}
            /\ \A n \in WrittenNames : n \in DOMAIN files /\ WrittenAs(n) = {files[n]}

\* a call with pre_code and post_code wrote the three files, and another one
\* four
C10_Witness ==
    /\ call # <<>>
    /\ impl = "fppgen"
    /\ call.args.pre_code = <<"pre">> /\ call.args.post_code = <<"post">>
    /\ call.args.test_region = PyTestRegion
    /\ Len(call.writes) = 3
    /\ files["ans.py"] = <<"pre", "\n", "x = 1", "\n", "post">>
    /\ "test_source.json" \in DOMAIN files

\* the test region a call works on (line 86), and whether reading it as a JSON
\* test specification failed: json_loads raised, or make_test_file did
WorkingTestRegion ==
    IF call.args.test_region = <<>> THEN TEST_DEFAULT ELSE call.args.test_region
CompileFailed == WorkingTestRegion \in {TEST_DEFAULT, PyTestRegion, JsonOtherRegion}

\* C11: when parsing the test region as a JSON test specification or compiling
\* it fails, the call still completes (test.py, ans.py and setup_code.py are
\* all written) and test.py is the test region verbatim, the default template
\* when the test region was empty.
C11_CompileFailureRecovered ==
    (call # <<>> /\ CompileFailed) =>
        /\ WrittenAs("test.py") = {WorkingTestRegion}
        /\ files["test.py"] = WorkingTestRegion
        /\ {"test.py", "ans.py", "setup_code.py"} \subseteq WrittenNames
        /\ "test_source.json" \notin WrittenNames
        /\ call.args.test_region = <<>> => files["test.py"] = TEST_DEFAULT

\* JSON that is no test specification was given: it is test.py as it stands
C11_Witness ==
    /\ call # <<>>
    /\ call.args.test_region = JsonOtherRegion
    /\ call.args.log_details
    /\ files["test.py"] = JsonOtherRegion
    /\ DOMAIN files = {"test.py", "ans.py", "setup_code.py"}

\* C12: whenever a call falls back to the raw test region after the parse or
\* the compilation failed, it logs a warning for the recovery.
C12_RecoveryWarns ==
    (call # <<>> /\ CompileFailed) =>
        \E i \in DOMAIN log : log[i].level = "warn"

----------------------------------------------------------------------------
(* Properties of populate_tests_dir of the three autograders, checked under *)
(* SpecRun                                                                   *)

\* an RSpecAutograder call is under way or over
InRSpec == run_backend = "rspec"

\* the tests directory with the solution and nothing else
OnlySolution ==
    /\ DOMAIN run_root = {<<"solution">>, <<"solution", "_submission_file">>}
    /\ run_root[<<"solution", "_submission_file">>] = run_args.answer_code

\* the paths under var_* directories
VarPaths == {q \in DOMAIN run_root : q[1] = "var_"}

C14_MissingSutFatal ==
    (InRSpec /\ IsMapping(run_args.test_region)
             /\ run_pc \notin {"solution", "meta", "common"}) =>
        IF run_args.setup_code = SetupMissing
        THEN /\ run_pc = "error"
             /\ run_err.type = "FileNotFoundError"
             /\ run_err.names = <<[dir |-> run_args.source_dir,
                                   name |-> SetupMissing]>>
             /\ DOMAIN run_root = {<<"solution">>,
                                   <<"solution", "_submission_file">>,
                                   <<"meta.json">>}
             /\ run_root[<<"meta.json">>] =
                  MetaJson(run_args.test_region, run_args.pre_code,
                           run_args.post_code)
             /\ run_patches = <<>>
        ELSE /\ run_pc = "error" => run_err.type # "FileNotFoundError"
             /\ <<"common", "a.rb">> \in DOMAIN run_root

\* the call failed on the setup_code "lib" with a mutation document
C14_Witness ==
    /\ InRSpec
    /\ run_pc = "error"
    /\ run_err.type = "FileNotFoundError"
    /\ run_args.setup_code = SetupMissing
    /\ run_args.test_region = DocAllValid
    /\ <<"meta.json">> \in DOMAIN run_root

\* C15: when the patch tool exits with a status other than 0 for a (variant,
\* file) pair, the RSpec call raises a ChildProcessError naming that file and
\* that variant, no later pair is attempted, and nothing is rolled back: the
\* var_* artifacts of the earlier pairs, common/, meta.json and the solution
\* remain. (The document patches v1/a.rb, then v2/a.rb with a patch that does
\* not apply, then v2/b.rb.)
C15_PatchFailureFatal ==
    (InRSpec /\ run_args.test_region = DocOneInvalid
             /\ run_args.setup_code = SetupApp) =>
        /\ run_pc # "done"
        /\ Len(run_patches) <= 2
        /\ <<"var_", "v2", "b.rb">> \notin DOMAIN run_root
        /\ run_pc = "error" =>
             /\ run_err.type = "ChildProcessError"
             /\ run_err.names = <<"a.rb", "v2">>
             /\ Len(run_patches) = 2
             /\ run_patches[2].variant = "v2" /\ run_patches[2].file = "a.rb"
             /\ run_root[<<"var_", "v1", "a.rb">>] =
                  Patched(SutFiles["a.rb"], <<"p1">>)
             /\ run_root[<<"common", "a.rb">>] = SutFiles["a.rb"]
             /\ run_root[<<"common", "b.rb">>] = SutFiles["b.rb"]
             /\ run_root[<<"meta.json">>] =
                  MetaJson(DocOneInvalid, run_args.pre_code,
                           run_args.post_code)
             /\ run_root[<<"solution", "_submission_file">>] =
                  run_args.answer_code

\* the patch of v2/a.rb failed after var_v1/a.rb was written
C15_Witness ==
    /\ InRSpec
    /\ run_pc = "error"
    /\ run_err.type = "ChildProcessError"
    /\ <<"var_", "v1", "a.rb">> \in DOMAIN run_root
    /\ <<"var_", "v2">> \in DOMAIN run_root

\* the (variant, file, patch) triples of a mutation document
Pairs(text) ==
    UNION {{<<Mutations(text)[i].variant, Mutations(text)[i].files[j].file,
              Mutations(text)[i].files[j].patch>> :
               j \in DOMAIN Mutations(text)[i].files} :
           i \in DOMAIN Mutations(text)}

\* the triples the patch tool was started on
Patches ==
    {<<run_patches[i].variant, run_patches[i].file, run_patches[i].patch>> :
        i \in DOMAIN run_patches}

\* C16: never are two patch processes running; and when the RSpec call
\* returns, the patch tool was started exactly once for each (variant, file)
\* pair of the document, and for each pair var_<variant>/<file> is the result
\* of applying its patch to the file of the system under test, which has the
\* content of common/<file>.
C16_PatchOncePerPair ==
    /\ run_inflight <= 1
    /\ (InRSpec /\ run_pc = "done") =>
         /\ run_inflight = 0
         /\ Patches = Pairs(run_args.test_region)
         /\ Len(run_patches) = Cardinality(Pairs(run_args.test_region))
         /\ VarPaths = {<<"var_", t[1]>> : t \in Patches}
                         \cup {<<"var_", t[1], t[2]>> : t \in Patches}
         /\ \A t \in Patches :
              /\ run_root[<<"common", t[2]>>] = SutFiles[t[2]]
              /\ run_root[<<"var_", t[1], t[2]>>] =
                   Patched(run_root[<<"common", t[2]>>], t[3])

\* the call on the document of three valid patches returned
C16_Witness ==
    /\ InRSpec
    /\ run_pc = "done"
    /\ Len(run_patches) = 3
    /\ run_root[<<"var_", "v2", "b.rb">>] = <<"B", " patched by ", "p3">>

\* the call that ran before and the call that is over were of the same
\* autograder with the same six arguments
SameSix ==
    /\ runs # <<>>
    /\ run_pc \in {"done", "error"}
    /\ runs[1].backend = run_backend
    /\ \A k \in {"answer_code", "setup_code", "test_region", "source_dir",
                 "pre_code", "post_code"} : runs[1].args[k] = run_args[k]

----------------------------------------------------------------------------
(* Properties of generate_many, checked under SpecBatch *)

\* the errors that are fatal to one file's generation: the markup error
\* (SyntaxError), the error of malformed metadata (GenerationError) and the
\* errors of external tools (FileNotFoundError, ChildProcessError)
FatalErrors ==
    {"SyntaxError", "GenerationError", "FileNotFoundError", "ChildProcessError"}

\* the paths whose generation raised
Raised == {i \in DOMAIN attempted : attempted[i].raises # ""}

\* the paths a failure was reported for
Reported == {reports[i].path : i \in DOMAIN reports} \ {0}

C17_CaughtKinds ==
    (\A i \in DOMAIN attempted :
        attempted[i].raises \in {"", "SyntaxError", "FileNotFoundError",
                                 "ChildProcessError"}) =>
        /\ batch_pc # "aborted"
        /\ successes + failures = Len(attempted)
        /\ failures = Cardinality(Raised)
        /\ Reported = Raised

----------------------------------------------------------------------------
(* Properties of generate_fpp_question, checked under SpecQuestion *)

\* the step writes a file
Wrote == Len(q_writes') > Len(q_writes)

\* generation of info.json is forced: by the metadata of the source when it
\* says, by the argument otherwise
Forced ==
    \/ "forceGenerateJson" \in DOMAIN q_in.metadata
         /\ q_in.metadata.forceGenerateJson
    \/ "forceGenerateJson" \notin DOMAIN q_in.metadata
         /\ q_in.force_generate_json

\* the step appends the warning that info.json is overwritten
WarnsOverwriting ==
    /\ Len(q_warnings') = Len(q_warnings) + 1
    /\ q_warnings'[Len(q_warnings')].msg = "  - Overwriting"
    /\ q_warnings'[Len(q_warnings')].path = InfoJsonPath

\* what C18 says of one step
InfoJsonStep ==
    InfoJsonPath \in DOMAIN q_dir =>
        /\ InfoJsonPath \in DOMAIN q_dir'
        /\ q_pc # "info" => q_dir'[InfoJsonPath] = q_dir[InfoJsonPath]
        /\ q_pc = "info" =>
             /\ Wrote => Forced \/ q_in.info_region # "none"
             /\ ~Wrote => q_dir' = q_dir /\ q_warnings' = q_warnings
             /\ (Wrote /\ q_dir'[InfoJsonPath][1] = "<default info.json>")
                  => WarnsOverwriting
             /\ ~(Forced \/ q_in.info_region # "none") => ~Wrote

\* C18: an info.json that is there before the call is overwritten only when
\* generation is forced or the source has an info.json region, and is left as
\* it is otherwise, by every step of the call; and whenever it is overwritten
\* by a regenerated default, a warning is emitted.
C18_InfoJsonOverwrite == [][InfoJsonStep]_vars

\* an earlier info.json was overwritten by a regenerated default, under the
\* metadata forceGenerateJson, and the warning was emitted
C18_Witness ==
    /\ q_pc = "done"
    /\ q_in.metadata # <<>> /\ q_in.metadata.forceGenerateJson
    /\ ~q_in.force_generate_json
    /\ q_in.info_region = "none"
    /\ q_dir[InfoJsonPath][1] = "<default info.json>"
    /\ \E i \in DOMAIN q_warnings :
          q_warnings[i].msg = "  - Overwriting" /\ q_warnings[i].tail = "..."

\* the steps that write the automatically generated files
GeneratedBy == {"source", "question", "solution", "info", "server", "tests",
                "metadata"}

\* C20: the files of the custom regions are written after every automatically
\* generated file (question.html, solution, info.json, server.py, the tests
\* files, metadata.json), so that a custom region whose path is that of a
\* generated file determines the content of the file after the call.
C20_CustomRegionsLast ==
    /\ \A i, j \in DOMAIN q_writes :
          (q_writes[i].by = "regions" /\ q_writes[j].by \in GeneratedBy)
             => j < i
    /\ q_pc # "done" => \A i \in DOMAIN q_writes : q_writes[i].by # "regions"
    /\ q_pc = "done" =>
          /\ {"source", "question", "solution", "server", "tests"}
                \subseteq {q_writes[i].by : i \in DOMAIN q_writes}
          /\ q_in.metadata # <<>> =>
                \E i \in DOMAIN q_writes : q_writes[i].by = "metadata"
          /\ \A k \in DOMAIN q_in.custom :
                LET path == IF q_in.custom[k].name.ext = ""
                            THEN [q_in.custom[k].name EXCEPT !.ext = ".py"]
                            ELSE q_in.custom[k].name
                IN  /\ path \in DOMAIN q_dir
                    /\ q_dir[path] = q_in.custom[k].text

\* a region server.py was written over the generated server.py
C20_Witness ==
    /\ q_pc = "done"
    /\ \E i \in DOMAIN q_writes :
          /\ q_writes[i].by = "server"
          /\ q_writes[i].content = GeneratedServer
    /\ q_dir[P("", "server", ".py")] = <<"# my server">>
    /\ P("", "extra", ".py") \in DOMAIN q_dir

\* the writes of the loop over the remaining regions
LoopWrites == {i \in DOMAIN q_writes : q_writes[i].by = "regions"}

\* the file of a region name: the name, with .py when it has no extension
FileOf(name) == IF name.ext = "" THEN [name EXCEPT !.ext = ".py"] ELSE name

\* the writes of a region's text to the file of its name
WritesOf(r) ==
    {i \in DOMAIN q_writes : /\ q_writes[i].path = FileOf(r.name)
                             /\ q_writes[i].content = r.text}

\* the regions the claim reserves
ReservedNames ==
    {P("", "answer_code", ""), P("", "prompt_code", ""),
     P("", "question_text", ""), P("", "setup_code", ""), P("", "test", ""),
     P("", "metadata", ""), InfoJsonPath}

\* the regions of the source that are not reserved
OtherRegions(reserved) ==
    {Regions(q_in)[k] : k \in {j \in DOMAIN Regions(q_in) :
                                  Regions(q_in)[j].name \notin reserved}}

-----------------------------------------------------------------------------
(* Properties of info_json_update *)

\* the keys of the fragment and of its externalGradingOptions
HasKeys(f, options) ==
    /\ DOMAIN f = {"gradingMethod", "externalGradingOptions"}
    /\ f.gradingMethod = "External"
    /\ DOMAIN f.externalGradingOptions = options
    /\ f.externalGradingOptions.enabled = TRUE

\* a call of info_json_update
Produced == lookup # <<>> /\ fragment' = InfoJsonUpdate(impl, lookup.cls)

\* producing the fragment changes nothing but the value returned
NoStateChange ==
    UNCHANGED <<extractVars, lexVars, impl, autograders, lookup,
                populateVars, lineVars, generationVars>>

ShapeAsStated ==
    Produced /\ fragment' # fragment =>
        /\ HasKeys(fragment', {"enabled", "image", "entrypoint",
                               "timeoutSeconds"})
        /\ NoStateChange

\* C22 as stated: the fragment of every autograder is {gradingMethod:
\* "External", externalGradingOptions: {enabled: true, image, entrypoint,
\* timeoutSeconds}} with exactly these keys, and producing it changes no state.
C22_AsStated == [][ShapeAsStated]_vars

ShapeInCode ==
    Produced /\ fragment' # fragment =>
        /\ HasKeys(fragment', {"enabled", "image", "entrypoint", "timeout"})
        /\ fragment'.externalGradingOptions.timeout \in {5, 30, 60}
        /\ NoStateChange

\* C22, amended: the fragment of every autograder is {gradingMethod:
\* "External", externalGradingOptions: {enabled: true, image, entrypoint,
\* timeout}} with exactly these keys (the time limit is under the key timeout,
\* 5, 30 or 60), and producing it changes no state.
C22_FragmentShape == [][ShapeInCode]_vars

\* the fragment of the RSpecAutograder, looked up in a registry that has it
C22_Witness ==
    /\ lookup # <<>>
    /\ lookup.cls = "RSpecAutograder"
    /\ fragment # <<>>
    /\ fragment.externalGradingOptions.image = "saasbook/pl-rspec-autograder"
    /\ fragment.externalGradingOptions.timeout = 60

-----------------------------------------------------------------------------
(* Properties of parse_fpp_regions: literals, the docstring state *)

\* the placeholder marker occurs in text
HasMarker(text) ==
    \E i \in 1..(Len(text) - Len(BLANK_SUBSTITUTE) + 1) :
        SubSeq(text, i, i + Len(BLANK_SUBSTITUTE) - 1) = BLANK_SUBSTITUTE

\* the fragments a step appended to the buffer of region k
NewFragments(k) ==
    SubSeq(r_texts'[k], Len(Get(r_texts, k)) + 1, Len(r_texts'[k]))

\* every fragment the step appended, to any buffer, is the token's text, its
\* text without the docstring delimiters, or a newline
OnlyOwnText(t) ==
    \A k \in DOMAIN r_texts' :
        /\ Len(r_texts'[k]) >= Len(Get(r_texts, k))
        /\ \A i \in DOMAIN NewFragments(k) :
              /\ NewFragments(k)[i] \in
                    {t.text, SubSeq(t.text, 4, Len(t.text) - 3), <<"\n">>}
              /\ ~HasMarker(NewFragments(k)[i])

LiteralStep ==
    (Took /\ LastToken'.text # <<>>
          /\ LastToken'.type \in {"STRING", "DOCSTRING", "COMMENT"}) =>
        /\ Untagged(LastToken', "STRING") => AppendedToBoth(LastToken')
        /\ OnlyOwnText(LastToken')

\* C23: an untagged single-line string literal is appended unchanged to both
\* answer_code and prompt_code, and a "?" inside a String, Docstring or
\* Comment token never becomes a blank: what such a token adds to any buffer
\* is its own text (without the delimiters for a docstring taken as question
\* text) and holds no placeholder marker.
C23_LiteralsKeepQuestionMarks == [][LiteralStep]_vars

\* the string '?s?', the comment "#?n?" and the docstring of ?Q? in a row: the string is in both code
\* buffers, the comment in answer_code, the docstring in both, and no buffer
\* holds a marker
C23_Witness ==
    /\ Len(data) = 3
    /\ Untagged(data[1], "STRING") /\ data[1].text = StringText
    /\ Untagged(data[2], "COMMENT") /\ data[2].text = NoteComment
    /\ Untagged(data[3], "DOCSTRING") /\ data[3].text = DocText
    /\ answer = <<StringText, NoteComment, DocText>>
    /\ prompt = <<StringText, DocText>>
    /\ ~HasMarker(Join(answer)) /\ ~HasMarker(Join(prompt))

-----------------------------------------------------------------------------
(* Properties of Line, checked under SpecLine *)

\* the number of placeholder markers of a raw line
Markers(raw_line) ==
    Cardinality({i \in 1..Len(raw_line) :
                    StartsWith(SubSeq(raw_line, i, Len(raw_line)),
                               BLANK_SUBSTITUTE)})

\* the raw line carries a match of the pattern
Carries(pattern, raw_line) ==
    \E i \in 1..Len(raw_line) :
        MatchLen(pattern, SubSeq(raw_line, i, Len(raw_line))) > 0

\* the call returned a Line
Built == line_result # <<>> /\ "line" \in DOMAIN line_result

\* len(codeSnippets) == len(blankValues) + 1
OneMoreSnippet(line) == Len(line.codeSnippets) = Len(line.blankValues) + 1

\* C24 as stated: every Line that exists has one more code snippet than blank
\* values: constructing one that has not raises ValueError; from_fpp_str
\* always builds a Line that has, with one blank value per marker of the raw
\* line, and classifies the line as given when it carries #<n>given, else as
\* distractor when it carries #distractor, else as starter.
C24_AsStated ==
    line_result # <<>> =>
        /\ Built => OneMoreSnippet(line_result.line)
        /\ line_call.op = "from_pl_data" =>
              IF OneMoreSnippet(line_call.arg) THEN Built
              ELSE line_result = [raised |-> "ValueError"]
        /\ line_call.op = "from_fpp_str" =>
              /\ Built
              /\ Len(line_result.line.blankValues) = Markers(line_call.arg)
              /\ line_result.kind =
                   IF Carries("GIVEN", line_call.arg) THEN "given"
                   ELSE IF Carries("DISTRACTOR", line_call.arg)
                   THEN "distractor" ELSE "starter"

\* the last snippet of a raw line: what follows its last marker
LastSnippet(raw_line) ==
    LET split == Split(Strip(raw_line), BLANK_SUBSTITUTE)
    IN  split[Len(split)]

\* what holds of the calls: a Line that was built has one more snippet than
\* blank values, a constructor call that would break this raises ValueError,
\* and from_fpp_str either builds such a Line, with one blank value per marker
\* and the kind read off the text after the last marker, or raises IndexError,
\* which it does exactly when that text has more #blank comments than the line
\* has markers
BuiltLinesWellFormed ==
    line_result # <<>> =>
        /\ Built => OneMoreSnippet(line_result.line)
        /\ line_call.op = "from_pl_data" =>
              IF OneMoreSnippet(line_call.arg) THEN Built
              ELSE line_result = [raised |-> "ValueError"]
        /\ line_call.op = "from_fpp_str" =>
              LET last == LastSnippet(line_call.arg)
                  defaults == Len(Scan("BLANK", last).matches)
              IN  IF defaults > Markers(line_call.arg)
                  THEN line_result = [raised |-> "IndexError"]
                  ELSE /\ Built
                       /\ Len(line_result.line.blankValues)
                            = Markers(line_call.arg)
                       /\ line_result.kind \in {"given", "distractor",
                                                "starter"}
                       /\ line_result.kind = "given" => Carries("GIVEN", last)
                       /\ line_result.kind = "distractor" =>
                            Carries("DISTRACTOR", last)

-----------------------------------------------------------------------------
(* Properties of the docstring state, checked under Spec *)

\* the step takes an untagged docstring as question text
TakesDocstring ==
    /\ Took /\ Untagged(LastToken', "DOCSTRING")
    /\ Len(question') > Len(question)

DowngradeAsStated ==
    /\ Took => docstring_state' # Accepting
    /\ TakesDocstring => data = <<>>

\* C25 as stated: after any token is processed the docstring state is no
\* longer Accepting, so a docstring is taken as question text only when it is
\* the very first token.
C25_AsStated == [][DowngradeAsStated]_vars

DowngradeInCode ==
    Took =>
        LET t == LastToken'
        IN  /\ (t.region = "" /\ t.text # <<>> /\ pc' # "error") =>
                 /\ docstring_state' # Accepting
                 /\ (docstring_state = Accepting /\ t.type # "DOCSTRING") =>
                      docstring_state' = Skipped
            /\ (t.region # "" \/ t.text = <<>>) =>
                 (docstring_state' = Accepting <=> docstring_state = Accepting)
            /\ TakesDocstring =>
                 /\ docstring_state = Accepting
                 /\ ~SeenUntagged(data)

\* C25, amended: after an untagged token with text is processed the docstring
\* state is no longer Accepting (Accepting becomes Skipped unless the token is
\* the docstring that is taken); a region-tagged token and a token without
\* text skip the downgrade and leave Accepting as it is. So a docstring is
\* taken as question text only when no untagged token with text comes before
\* it: it is the first token, or follows tagged and empty tokens only.
C25_DowngradeAfterUntagged == [][DowngradeInCode]_vars

\* a comment tagged with the region test, the docstring, a string: the state
\* was still Accepting at the docstring, which became question text; the string
\* is in both code buffers
C25_Witness ==
    /\ Len(data) = 3
    /\ data[1].region = "test" /\ data[1].type = "COMMENT"
    /\ Untagged(data[2], "DOCSTRING")
    /\ Untagged(data[3], "STRING")
    /\ question = <<InnerText(DocText)>>
    /\ answer = <<StringText>>
    /\ docstring_state = FollowWithNewline

\* the newlines the extractor put into question_text as fragments of their own
Separators(fragments) ==
    Cardinality({i \in DOMAIN fragments : fragments[i] = <<"\n">>})

\* a docstring seeded question_text, and a question_text region has text
SeededAndRegion(tokens, fragments) ==
    /\ \E i \in DOMAIN fragments : fragments[i] = InnerText(DocText)
    /\ \E i \in DOMAIN tokens :
          tokens[i].region = "question_text" /\ tokens[i].text # <<>>

JoinStep ==
    /\ (Took /\ LastToken'.region = "question_text"
             /\ LastToken'.text # <<>>) =>
          IF docstring_state = FollowWithNewline
          THEN /\ question' = question \o <<<<"\n">>, LastToken'.text>>
               /\ docstring_state' = Finished
          ELSE /\ question' = Append(question, LastToken'.text)
               /\ docstring_state' = docstring_state
    /\ TakesDocstring =>
          IF question # <<>>
          THEN /\ question' = question \o <<<<"\n">>,
                                            InnerText(LastToken'.text)>>
               /\ docstring_state' = Finished
          ELSE /\ question' = <<InnerText(LastToken'.text)>>
               /\ docstring_state' = FollowWithNewline
    /\ Took =>
          /\ Separators(question') <= 1
          /\ SeededAndRegion(data', question') <=> Separators(question') = 1
          /\ SeededAndRegion(data', question') <=> docstring_state' = Finished
          /\ Len(question') >= Len(question)
          /\ SubSeq(question', 1, Len(question)) = question

\* C26: a docstring that seeds question_text and a question_text region are
\* joined in source order by exactly one inserted newline, and the docstring
\* state ends as Finished: a question_text token in state FollowWithNewline
\* gets a newline before it and moves the state to Finished, a docstring
\* accepted when question_text already has text gets a newline before its seed
\* and moves the state to Finished, and later question_text tokens get no
\* separator.
C26_JoinedByOneNewline == [][JoinStep]_vars

\* the docstring, then two tokens of the question_text region: one newline
\* after the seed, none between the region's tokens
C26_Witness ==
    /\ Len(data) = 3
    /\ Untagged(data[1], "DOCSTRING")
    /\ data[2].region = "question_text" /\ data[2].text = RegionText
    /\ data[3].region = "question_text" /\ data[3].text = RegionText
    /\ question = <<InnerText(DocText), <<"\n">>, RegionText, RegionText>>
    /\ docstring_state = Finished

\* C27: with the default blank delimiter parse_blanks never raises the
\* empty-capture error, whatever the text of the Unmatched token: an empty
\* capture is only possible with a custom blank pattern.
C27_DefaultNeverRaises ==
    "blankDelimiter" \notin DOMAIN metadata => (pc # "error" /\ err = <<>>)

\* the docstrings taken as question text so far
TakenDocstrings ==
    Cardinality({i \in DOMAIN question : question[i] = InnerText(DocText)})

ForwardStep ==
    /\ data = <<>> => docstring_state = Accepting
    /\ docstring_state # Accepting => docstring_state' # Accepting
    /\ docstring_state \in {Finished, Skipped} =>
          docstring_state' = docstring_state
    /\ docstring_state' = FollowWithNewline =>
          docstring_state \in {Accepting, FollowWithNewline}
    /\ docstring_state = FollowWithNewline =>
          docstring_state' \in {FollowWithNewline, Finished}
    /\ TakesDocstring => (docstring_state = Accepting /\ TakenDocstrings = 0)
    /\ (Took /\ LastToken'.text = <<>>) =>
          (docstring_state' = docstring_state /\ r_texts' = r_texts)

\* C28: the docstring state only moves forward: it starts as Accepting and
\* never returns to Accepting once left; Finished and Skipped are never left;
\* FollowWithNewline is entered only from Accepting and left only to Finished;
\* so at most one docstring of a stream is taken as question text; a token
\* with empty text changes neither the state nor any buffer.
C28_StateMovesForward == [][ForwardStep]_vars

\* the docstring, a token without text, the docstring again: the first one
\* was taken, the empty token changed nothing, the second one is code
C28_Witness ==
    /\ Len(data) = 3
    /\ Untagged(data[1], "DOCSTRING")
    /\ data[2].text = <<>>
    /\ data[3].region = "" /\ data[3].text = DocText
    /\ TakenDocstrings = 1
    /\ question = <<InnerText(DocText)>>
    /\ answer = <<DocText>> /\ prompt = <<DocText>>
    /\ docstring_state = FollowWithNewline

-----------------------------------------------------------------------------
(* Properties of generate_fpp_question: a source that does not extract *)

\* the question directory before the call: absent, or with the info.json of
\* an earlier generation
DirsBefore == {<<>>, [p \in {InfoJsonPath} |-> OldInfo]}

FailStep ==
    q_pc' = "error" =>
        /\ q_dir' = q_dir
        /\ q_dir' \in DirsBefore
        /\ TestsDir \notin DOMAIN q_dir'
        /\ P("", "source", ".py") \notin DOMAIN q_dir'
        /\ q_writes' = <<>>

\* C29: when the tokenizer or the extraction raises on the source, the call
\* has made or changed nothing: no question directory, no tests directory, no
\* copy of the source, no generated file; both run before the first write.
C29_FailureWritesNothing == [][FailStep]_vars

\* the call failed on a source whose question directory holds an info.json:
\* the directory is as it was
C29_Witness ==
    /\ q_pc = "error"
    /\ q_dir = [p \in {InfoJsonPath} |-> OldInfo]
    /\ q_writes = <<>>

-----------------------------------------------------------------------------
(* Properties of populate_tests_dir: the log_details flag *)

\* the call that ran before and the call that is over differ in log_details
\* only
DifferInFlagOnly ==
    SameSix /\ runs[1].args.log_details # run_args.log_details

\* C30: what a populate_tests_dir writes is a function of answer_code,
\* setup_code, test_region, source_dir, pre_code and post_code only: two calls
\* of the same autograder that differ in log_details only leave the same paths
\* with the same contents.
C30_FlagChangesNothing ==
    DifferInFlagOnly =>
        /\ DOMAIN runs[1].root = DOMAIN run_root
        /\ \A q \in DOMAIN run_root : runs[1].root[q] = run_root[q]

\* what the flag changes: nothing for the RubyAutograder and the
\* RSpecAutograder; for the PythonAutograder test_source.json, which only the
\* call with the flag set writes, and which holds the test region
FlagChangesTestSourceOnly ==
    DifferInFlagOnly =>
        /\ run_backend # "python" =>
              (runs[1].root = run_root /\ runs[1].err = run_err)
        /\ \A q \in (DOMAIN run_root \cup DOMAIN runs[1].root)
                       \ {<<"test_source.json">>} :
              /\ q \in DOMAIN run_root /\ q \in DOMAIN runs[1].root
              /\ run_root[q] = runs[1].root[q]
        /\ <<"test_source.json">> \in DOMAIN run_root =>
              /\ run_args.log_details
              /\ run_root[<<"test_source.json">>] = run_args.test_region

============================================================================
